---- MODULE Spec2Model ----
(***************************************************************************)
(* Model of the rule-based extraction core of Musafir_project:             *)
(*   nlp_extractor.py   extract_passenger_info, extract_entities           *)
(*   frame_processor.py merge_entities, process_dynamic_image              *)
(*   query_parser.py    normalize_city, parse_date, parse_flight_query     *)
(*   main.py            extract_endpoint, ask_endpoint,                    *)
(*                      parse_flight_query_endpoint                        *)
(*                                                                         *)
(* A Python str is a sequence of one-character strings.  A Python dict is  *)
(* a function whose domain is the set of its keys.  A value stored in an   *)
(* entity dict is tagged: [str |-> chars] for a str, [dict |-> f] for a    *)
(* dict, so that isinstance(value, str) is a test on the tag.              *)
(*                                                                         *)
(* A character of U+0020..U+007E or U+00A0..U+00FF is written as itself,   *)
(* tab, line feed, form feed and carriage return as "\t", "\n", "\f" and  *)
(* "\r".  Every other character, and the grave accent, is written as its    *)
(* code point in at least four upper-case hex digits: "U+0130" is the one  *)
(* character U+0130, "U+0060" the grave accent.  Ord and Chr convert       *)
(* between a character and its code point.  The character tables are      *)
(* those of CPython 3.11 (Unicode 14.0.0), for every code point.           *)
(***************************************************************************)
EXTENDS Integers, Sequences, FiniteSets, Bags, TLC

VARIABLES
    pc,             \* position of the running handler / function
    text,           \* the text given to extract_entities or parse_flight_query
    current_date,   \* the reference date given: a str, or where it is optional
                    \* None or [str |-> chars]
    extracted_data, \* main.py: the in-memory store, file_id -> stored result
    in_flight,      \* extract_endpoint: the bag of the files of the requests
                    \* suspended at "content = await file.read()"
    frames,         \* process_dynamic_image: the sampled frames (inputs)
    fi,             \* process_dynamic_image: i, the index of the next frame
    frame_results,  \* process_dynamic_image / merge_entities: the frame results
    merged,         \* merge_entities: the merged dict being built
    mi,             \* merge_entities: index of the next frame result to merge
    question,       \* ask_endpoint: the question, while the last request is an /ask
    response        \* the value the last handler returned (or the error it raised)

vars == <<pc, text, current_date, extracted_data, in_flight, frames, fi,
          frame_results, merged, mi, question, response>>

(***************************************************************************)
(* Characters and Python's str methods                                     *)
(***************************************************************************)
UpperChars == <<"A","B","C","D","E","F","G","H","I","J","K","L","M",
               "N","O","P","Q","R","S","T","U","V","W","X","Y","Z">>
LowerChars == <<"a","b","c","d","e","f","g","h","i","j","k","l","m",
               "n","o","p","q","r","s","t","u","v","w","x","y","z">>
DigitChars == <<"0","1","2","3","4","5","6","7","8","9">>
HexDigits == <<"0","1","2","3","4","5","6","7","8","9","A","B","C","D","E","F">>
\* the characters U+0000..U+00FF: Latin1[n + 1] is chr(n)
Latin1 == <<
    "U+0000", "U+0001", "U+0002", "U+0003", "U+0004", "U+0005", "U+0006", "U+0007", "U+0008", "\t",
    "\n", "U+000B", "\f", "\r", "U+000E", "U+000F", "U+0010", "U+0011", "U+0012", "U+0013",
    "U+0014", "U+0015", "U+0016", "U+0017", "U+0018", "U+0019", "U+001A", "U+001B", "U+001C",
    "U+001D", "U+001E", "U+001F", " ", "!", "\"", "#", "$", "%", "&", "'", "(", ")", "*", "+", ",",
    "-", ".", "/", "0", "1", "2", "3", "4", "5", "6", "7", "8", "9", ":", ";", "<", "=", ">", "?",
    "@", "A", "B", "C", "D", "E", "F", "G", "H", "I", "J", "K", "L", "M", "N", "O", "P", "Q", "R",
    "S", "T", "U", "V", "W", "X", "Y", "Z", "[", "\\", "]", "^", "_", "U+0060", "a", "b", "c", "d",
    "e", "f", "g", "h", "i", "j", "k", "l", "m", "n", "o", "p", "q", "r", "s", "t", "u", "v", "w",
    "x", "y", "z", "{", "|", "}", "~", "U+007F", "U+0080", "U+0081", "U+0082", "U+0083", "U+0084",
    "U+0085", "U+0086", "U+0087", "U+0088", "U+0089", "U+008A", "U+008B", "U+008C", "U+008D",
    "U+008E", "U+008F", "U+0090", "U+0091", "U+0092", "U+0093", "U+0094", "U+0095", "U+0096",
    "U+0097", "U+0098", "U+0099", "U+009A", "U+009B", "U+009C", "U+009D", "U+009E", "U+009F", " ",
    "¡", "¢", "£", "¤", "¥", "¦", "§", "¨", "©", "ª", "«", "¬", "­", "®", "¯", "°", "±", "²", "³",
    "´", "µ", "¶", "·", "¸", "¹", "º", "»", "¼", "½", "¾", "¿", "À", "Á", "Â", "Ã", "Ä", "Å", "Æ",
    "Ç", "È", "É", "Ê", "Ë", "Ì", "Í", "Î", "Ï", "Ð", "Ñ", "Ò", "Ó", "Ô", "Õ", "Ö", "×", "Ø", "Ù",
    "Ú", "Û", "Ü", "Ý", "Þ", "ß", "à", "á", "â", "ã", "ä", "å", "æ", "ç", "è", "é", "ê", "ë", "ì",
    "í", "î", "ï", "ð", "ñ", "ò", "ó", "ô", "õ", "ö", "÷", "ø", "ù", "ú", "û", "ü", "ý", "þ", "ÿ" >>

Range(f) == {f[x] : x \in DOMAIN f}

\* ord(c)
Latin1Ord == [c \in Range(Latin1) |-> (CHOOSE i \in 1..256 : Latin1[i] = c) - 1]
HexVal(h) == (CHOOSE i \in 1..16 : HexDigits[i] = h) - 1
RECURSIVE HexOrd(_)
HexOrd(h) ==
    IF h = "" THEN 0
    ELSE 16 * HexOrd(SubSeq(h, 1, Len(h) - 1)) + HexVal(SubSeq(h, Len(h), Len(h)))
Ord(c) == IF Len(c) = 1 THEN Latin1Ord[c] ELSE HexOrd(SubSeq(c, 3, Len(c)))
\* chr(n)
RECURSIVE Hex(_, _)
Hex(n, w) ==
    IF n = 0 /\ w <= 0 THEN ""
    ELSE Hex(n \div 16, w - 1) \o HexDigits[(n % 16) + 1]
Chr(n) == IF n < 256 THEN Latin1[n + 1] ELSE "U+" \o Hex(n, 4)
\* the characters of the code point ranges first, last, first, last, ...
Codes(ranges) == UNION {ranges[2 * i - 1]..ranges[2 * i] : i \in 1..(Len(ranges) \div 2)}
Chars(ranges) == {Chr(n) : n \in Codes(ranges)}

AZ == Range(UpperChars)
az == Range(LowerChars)
Alpha == AZ \cup az
\* [0-9]
Digit09 == Range(DigitChars)
\* the digits zero of the decimal digits of Unicode 14.0.0 (category Nd); the
\* digits one to nine of each follow it
DigitZeros == <<
    48, 1632, 1776, 1984, 2406, 2534, 2662, 2790, 2918, 3046, 3174, 3302, 3430, 3558, 3664, 3792,
    3872, 4160, 4240, 6112, 6160, 6470, 6608, 6784, 6800, 6992, 7088, 7232, 7248, 42528, 43216,
    43264, 43472, 43504, 43600, 44016, 65296, 66720, 68912, 69734, 69872, 69942, 70096, 70384,
    70736, 70864, 71248, 71360, 71472, 71904, 72016, 72784, 73040, 73120, 92768, 92864, 93008,
    120782, 120792, 120802, 120812, 120822, 123200, 123632, 125264, 130032 >>
\* regex \d (and what int() takes as a digit): str.isdecimal()
Digit == {Chr(z + k) : z \in Range(DigitZeros), k \in 0..9}
\* regex \s and the whitespace of str.strip(): str.isspace()
SpaceRanges == <<
    9,13,  28,32,  133,133,  160,160,  5760,5760,  8192,8202,  8232,8233,  8239,8239,  8287,8287,
    12288,12288 >>
Space == Chars(SpaceRanges)
\* str.isalnum()
AlnumRanges == <<
    48,57,  65,90,  97,122,  170,170,  178,179,  181,181,  185,186,  188,190,  192,214,  216,246,
    248,705,  710,721,  736,740,  748,748,  750,750,  880,884,  886,887,  890,893,  895,895,
    902,902,  904,906,  908,908,  910,929,  931,1013,  1015,1153,  1162,1327,  1329,1366,
    1369,1369,  1376,1416,  1488,1514,  1519,1522,  1568,1610,  1632,1641,  1646,1647,  1649,1747,
    1749,1749,  1765,1766,  1774,1788,  1791,1791,  1808,1808,  1810,1839,  1869,1957,  1969,1969,
    1984,2026,  2036,2037,  2042,2042,  2048,2069,  2074,2074,  2084,2084,  2088,2088,  2112,2136,
    2144,2154,  2160,2183,  2185,2190,  2208,2249,  2308,2361,  2365,2365,  2384,2384,  2392,2401,
    2406,2415,  2417,2432,  2437,2444,  2447,2448,  2451,2472,  2474,2480,  2482,2482,  2486,2489,
    2493,2493,  2510,2510,  2524,2525,  2527,2529,  2534,2545,  2548,2553,  2556,2556,  2565,2570,
    2575,2576,  2579,2600,  2602,2608,  2610,2611,  2613,2614,  2616,2617,  2649,2652,  2654,2654,
    2662,2671,  2674,2676,  2693,2701,  2703,2705,  2707,2728,  2730,2736,  2738,2739,  2741,2745,
    2749,2749,  2768,2768,  2784,2785,  2790,2799,  2809,2809,  2821,2828,  2831,2832,  2835,2856,
    2858,2864,  2866,2867,  2869,2873,  2877,2877,  2908,2909,  2911,2913,  2918,2927,  2929,2935,
    2947,2947,  2949,2954,  2958,2960,  2962,2965,  2969,2970,  2972,2972,  2974,2975,  2979,2980,
    2984,2986,  2990,3001,  3024,3024,  3046,3058,  3077,3084,  3086,3088,  3090,3112,  3114,3129,
    3133,3133,  3160,3162,  3165,3165,  3168,3169,  3174,3183,  3192,3198,  3200,3200,  3205,3212,
    3214,3216,  3218,3240,  3242,3251,  3253,3257,  3261,3261,  3293,3294,  3296,3297,  3302,3311,
    3313,3314,  3332,3340,  3342,3344,  3346,3386,  3389,3389,  3406,3406,  3412,3414,  3416,3425,
    3430,3448,  3450,3455,  3461,3478,  3482,3505,  3507,3515,  3517,3517,  3520,3526,  3558,3567,
    3585,3632,  3634,3635,  3648,3654,  3664,3673,  3713,3714,  3716,3716,  3718,3722,  3724,3747,
    3749,3749,  3751,3760,  3762,3763,  3773,3773,  3776,3780,  3782,3782,  3792,3801,  3804,3807,
    3840,3840,  3872,3891,  3904,3911,  3913,3948,  3976,3980,  4096,4138,  4159,4169,  4176,4181,
    4186,4189,  4193,4193,  4197,4198,  4206,4208,  4213,4225,  4238,4238,  4240,4249,  4256,4293,
    4295,4295,  4301,4301,  4304,4346,  4348,4680,  4682,4685,  4688,4694,  4696,4696,  4698,4701,
    4704,4744,  4746,4749,  4752,4784,  4786,4789,  4792,4798,  4800,4800,  4802,4805,  4808,4822,
    4824,4880,  4882,4885,  4888,4954,  4969,4988,  4992,5007,  5024,5109,  5112,5117,  5121,5740,
    5743,5759,  5761,5786,  5792,5866,  5870,5880,  5888,5905,  5919,5937,  5952,5969,  5984,5996,
    5998,6000,  6016,6067,  6103,6103,  6108,6108,  6112,6121,  6128,6137,  6160,6169,  6176,6264,
    6272,6276,  6279,6312,  6314,6314,  6320,6389,  6400,6430,  6470,6509,  6512,6516,  6528,6571,
    6576,6601,  6608,6618,  6656,6678,  6688,6740,  6784,6793,  6800,6809,  6823,6823,  6917,6963,
    6981,6988,  6992,7001,  7043,7072,  7086,7141,  7168,7203,  7232,7241,  7245,7293,  7296,7304,
    7312,7354,  7357,7359,  7401,7404,  7406,7411,  7413,7414,  7418,7418,  7424,7615,  7680,7957,
    7960,7965,  7968,8005,  8008,8013,  8016,8023,  8025,8025,  8027,8027,  8029,8029,  8031,8061,
    8064,8116,  8118,8124,  8126,8126,  8130,8132,  8134,8140,  8144,8147,  8150,8155,  8160,8172,
    8178,8180,  8182,8188,  8304,8305,  8308,8313,  8319,8329,  8336,8348,  8450,8450,  8455,8455,
    8458,8467,  8469,8469,  8473,8477,  8484,8484,  8486,8486,  8488,8488,  8490,8493,  8495,8505,
    8508,8511,  8517,8521,  8526,8526,  8528,8585,  9312,9371,  9450,9471,  10102,10131,
    11264,11492,  11499,11502,  11506,11507,  11517,11517,  11520,11557,  11559,11559,  11565,11565,
    11568,11623,  11631,11631,  11648,11670,  11680,11686,  11688,11694,  11696,11702,  11704,11710,
    11712,11718,  11720,11726,  11728,11734,  11736,11742,  11823,11823,  12293,12295,  12321,12329,
    12337,12341,  12344,12348,  12353,12438,  12445,12447,  12449,12538,  12540,12543,  12549,12591,
    12593,12686,  12690,12693,  12704,12735,  12784,12799,  12832,12841,  12872,12879,  12881,12895,
    12928,12937,  12977,12991,  13312,19903,  19968,42124,  42192,42237,  42240,42508,  42512,42539,
    42560,42606,  42623,42653,  42656,42735,  42775,42783,  42786,42888,  42891,42954,  42960,42961,
    42963,42963,  42965,42969,  42994,43009,  43011,43013,  43015,43018,  43020,43042,  43056,43061,
    43072,43123,  43138,43187,  43216,43225,  43250,43255,  43259,43259,  43261,43262,  43264,43301,
    43312,43334,  43360,43388,  43396,43442,  43471,43481,  43488,43492,  43494,43518,  43520,43560,
    43584,43586,  43588,43595,  43600,43609,  43616,43638,  43642,43642,  43646,43695,  43697,43697,
    43701,43702,  43705,43709,  43712,43712,  43714,43714,  43739,43741,  43744,43754,  43762,43764,
    43777,43782,  43785,43790,  43793,43798,  43808,43814,  43816,43822,  43824,43866,  43868,43881,
    43888,44002,  44016,44025,  44032,55203,  55216,55238,  55243,55291,  63744,64109,  64112,64217,
    64256,64262,  64275,64279,  64285,64285,  64287,64296,  64298,64310,  64312,64316,  64318,64318,
    64320,64321,  64323,64324,  64326,64433,  64467,64829,  64848,64911,  64914,64967,  65008,65019,
    65136,65140,  65142,65276,  65296,65305,  65313,65338,  65345,65370,  65382,65470,  65474,65479,
    65482,65487,  65490,65495,  65498,65500,  65536,65547,  65549,65574,  65576,65594,  65596,65597,
    65599,65613,  65616,65629,  65664,65786,  65799,65843,  65856,65912,  65930,65931,  66176,66204,
    66208,66256,  66273,66299,  66304,66339,  66349,66378,  66384,66421,  66432,66461,  66464,66499,
    66504,66511,  66513,66517,  66560,66717,  66720,66729,  66736,66771,  66776,66811,  66816,66855,
    66864,66915,  66928,66938,  66940,66954,  66956,66962,  66964,66965,  66967,66977,  66979,66993,
    66995,67001,  67003,67004,  67072,67382,  67392,67413,  67424,67431,  67456,67461,  67463,67504,
    67506,67514,  67584,67589,  67592,67592,  67594,67637,  67639,67640,  67644,67644,  67647,67669,
    67672,67702,  67705,67742,  67751,67759,  67808,67826,  67828,67829,  67835,67867,  67872,67897,
    67968,68023,  68028,68047,  68050,68096,  68112,68115,  68117,68119,  68121,68149,  68160,68168,
    68192,68222,  68224,68255,  68288,68295,  68297,68324,  68331,68335,  68352,68405,  68416,68437,
    68440,68466,  68472,68497,  68521,68527,  68608,68680,  68736,68786,  68800,68850,  68858,68899,
    68912,68921,  69216,69246,  69248,69289,  69296,69297,  69376,69415,  69424,69445,  69457,69460,
    69488,69505,  69552,69579,  69600,69622,  69635,69687,  69714,69743,  69745,69746,  69749,69749,
    69763,69807,  69840,69864,  69872,69881,  69891,69926,  69942,69951,  69956,69956,  69959,69959,
    69968,70002,  70006,70006,  70019,70066,  70081,70084,  70096,70106,  70108,70108,  70113,70132,
    70144,70161,  70163,70187,  70272,70278,  70280,70280,  70282,70285,  70287,70301,  70303,70312,
    70320,70366,  70384,70393,  70405,70412,  70415,70416,  70419,70440,  70442,70448,  70450,70451,
    70453,70457,  70461,70461,  70480,70480,  70493,70497,  70656,70708,  70727,70730,  70736,70745,
    70751,70753,  70784,70831,  70852,70853,  70855,70855,  70864,70873,  71040,71086,  71128,71131,
    71168,71215,  71236,71236,  71248,71257,  71296,71338,  71352,71352,  71360,71369,  71424,71450,
    71472,71483,  71488,71494,  71680,71723,  71840,71922,  71935,71942,  71945,71945,  71948,71955,
    71957,71958,  71960,71983,  71999,71999,  72001,72001,  72016,72025,  72096,72103,  72106,72144,
    72161,72161,  72163,72163,  72192,72192,  72203,72242,  72250,72250,  72272,72272,  72284,72329,
    72349,72349,  72368,72440,  72704,72712,  72714,72750,  72768,72768,  72784,72812,  72818,72847,
    72960,72966,  72968,72969,  72971,73008,  73030,73030,  73040,73049,  73056,73061,  73063,73064,
    73066,73097,  73112,73112,  73120,73129,  73440,73458,  73648,73648,  73664,73684,  73728,74649,
    74752,74862,  74880,75075,  77712,77808,  77824,78894,  82944,83526,  92160,92728,  92736,92766,
    92768,92777,  92784,92862,  92864,92873,  92880,92909,  92928,92975,  92992,92995,  93008,93017,
    93019,93025,  93027,93047,  93053,93071,  93760,93846,  93952,94026,  94032,94032,  94099,94111,
    94176,94177,  94179,94179,  94208,100343,  100352,101589,  101632,101640,  110576,110579,
    110581,110587,  110589,110590,  110592,110882,  110928,110930,  110948,110951,  110960,111355,
    113664,113770,  113776,113788,  113792,113800,  113808,113817,  119520,119539,  119648,119672,
    119808,119892,  119894,119964,  119966,119967,  119970,119970,  119973,119974,  119977,119980,
    119982,119993,  119995,119995,  119997,120003,  120005,120069,  120071,120074,  120077,120084,
    120086,120092,  120094,120121,  120123,120126,  120128,120132,  120134,120134,  120138,120144,
    120146,120485,  120488,120512,  120514,120538,  120540,120570,  120572,120596,  120598,120628,
    120630,120654,  120656,120686,  120688,120712,  120714,120744,  120746,120770,  120772,120779,
    120782,120831,  122624,122654,  123136,123180,  123191,123197,  123200,123209,  123214,123214,
    123536,123565,  123584,123627,  123632,123641,  124896,124902,  124904,124907,  124909,124910,
    124912,124926,  124928,125124,  125127,125135,  125184,125251,  125259,125259,  125264,125273,
    126065,126123,  126125,126127,  126129,126132,  126209,126253,  126255,126269,  126464,126467,
    126469,126495,  126497,126498,  126500,126500,  126503,126503,  126505,126514,  126516,126519,
    126521,126521,  126523,126523,  126530,126530,  126535,126535,  126537,126537,  126539,126539,
    126541,126543,  126545,126546,  126548,126548,  126551,126551,  126553,126553,  126555,126555,
    126557,126557,  126559,126559,  126561,126562,  126564,126564,  126567,126570,  126572,126578,
    126580,126583,  126585,126588,  126590,126590,  126592,126601,  126603,126619,  126625,126627,
    126629,126633,  126635,126651,  127232,127244,  130032,130041,  131072,173791,  173824,177976,
    177984,178205,  178208,183969,  183984,191456,  194560,195101,  196608,201546 >>
\* regex \w: str.isalnum() or "_"
WordCh == Chars(AlnumRanges) \cup {"_"}

\* a call that may raise: [ok |-> TRUE, v |-> value] or [ok |-> FALSE, error |-> e]
Ok(v) == [ok |-> TRUE, v |-> v]
Raise(e) == [ok |-> FALSE, error |-> e]

\* The one-character case mappings, as rules of four numbers first, last, step,
\* to: the code points first, first + step, ..., last map to to, to + step, ...
LowerRules == <<
    65,90,1,97,  192,214,1,224,  216,222,1,248,  256,302,2,257,  304,304,1,105,  306,310,2,307,
    313,327,2,314,  330,374,2,331,  376,376,1,255,  377,381,2,378,  385,385,1,595,  386,388,2,387,
    390,390,1,596,  391,391,1,392,  393,394,1,598,  395,395,1,396,  398,398,1,477,  399,399,1,601,
    400,400,1,603,  401,401,1,402,  403,403,1,608,  404,404,1,611,  406,406,1,617,  407,407,1,616,
    408,408,1,409,  412,412,1,623,  413,413,1,626,  415,415,1,629,  416,420,2,417,  422,422,1,640,
    423,423,1,424,  425,425,1,643,  428,428,1,429,  430,430,1,648,  431,431,1,432,  433,434,1,650,
    435,437,2,436,  439,439,1,658,  440,440,1,441,  444,444,1,445,  452,452,1,454,  453,453,1,454,
    455,455,1,457,  456,456,1,457,  458,458,1,460,  459,475,2,460,  478,494,2,479,  497,497,1,499,
    498,500,2,499,  502,502,1,405,  503,503,1,447,  504,542,2,505,  544,544,1,414,  546,562,2,547,
    570,570,1,11365,  571,571,1,572,  573,573,1,410,  574,574,1,11366,  577,577,1,578,
    579,579,1,384,  580,580,1,649,  581,581,1,652,  582,590,2,583,  880,882,2,881,  886,886,1,887,
    895,895,1,1011,  902,902,1,940,  904,906,1,941,  908,908,1,972,  910,911,1,973,  913,929,1,945,
    931,939,1,963,  975,975,1,983,  984,1006,2,985,  1012,1012,1,952,  1015,1015,1,1016,
    1017,1017,1,1010,  1018,1018,1,1019,  1021,1023,1,891,  1024,1039,1,1104,  1040,1071,1,1072,
    1120,1152,2,1121,  1162,1214,2,1163,  1216,1216,1,1231,  1217,1229,2,1218,  1232,1326,2,1233,
    1329,1366,1,1377,  4256,4293,1,11520,  4295,4295,1,11559,  4301,4301,1,11565,
    5024,5103,1,43888,  5104,5109,1,5112,  7312,7354,1,4304,  7357,7359,1,4349,  7680,7828,2,7681,
    7838,7838,1,223,  7840,7934,2,7841,  7944,7951,1,7936,  7960,7965,1,7952,  7976,7983,1,7968,
    7992,7999,1,7984,  8008,8013,1,8000,  8025,8031,2,8017,  8040,8047,1,8032,  8072,8079,1,8064,
    8088,8095,1,8080,  8104,8111,1,8096,  8120,8121,1,8112,  8122,8123,1,8048,  8124,8124,1,8115,
    8136,8139,1,8050,  8140,8140,1,8131,  8152,8153,1,8144,  8154,8155,1,8054,  8168,8169,1,8160,
    8170,8171,1,8058,  8172,8172,1,8165,  8184,8185,1,8056,  8186,8187,1,8060,  8188,8188,1,8179,
    8486,8486,1,969,  8490,8490,1,107,  8491,8491,1,229,  8498,8498,1,8526,  8544,8559,1,8560,
    8579,8579,1,8580,  9398,9423,1,9424,  11264,11311,1,11312,  11360,11360,1,11361,
    11362,11362,1,619,  11363,11363,1,7549,  11364,11364,1,637,  11367,11371,2,11368,
    11373,11373,1,593,  11374,11374,1,625,  11375,11375,1,592,  11376,11376,1,594,
    11378,11378,1,11379,  11381,11381,1,11382,  11390,11391,1,575,  11392,11490,2,11393,
    11499,11501,2,11500,  11506,11506,1,11507,  42560,42604,2,42561,  42624,42650,2,42625,
    42786,42798,2,42787,  42802,42862,2,42803,  42873,42875,2,42874,  42877,42877,1,7545,
    42878,42886,2,42879,  42891,42891,1,42892,  42893,42893,1,613,  42896,42898,2,42897,
    42902,42920,2,42903,  42922,42922,1,614,  42923,42923,1,604,  42924,42924,1,609,
    42925,42925,1,620,  42926,42926,1,618,  42928,42928,1,670,  42929,42929,1,647,
    42930,42930,1,669,  42931,42931,1,43859,  42932,42946,2,42933,  42948,42948,1,42900,
    42949,42949,1,642,  42950,42950,1,7566,  42951,42953,2,42952,  42960,42960,1,42961,
    42966,42968,2,42967,  42997,42997,1,42998,  65313,65338,1,65345,  66560,66599,1,66600,
    66736,66771,1,66776,  66928,66964,2,66967,  66929,66937,2,66968,  66941,66953,2,66980,
    66957,66961,2,66996,  66965,66965,1,67004,  68736,68786,1,68800,  71840,71871,1,71872,
    93760,93791,1,93792,  125184,125217,1,125218 >>
UpperRules == <<
    97,122,1,65,  181,181,1,924,  224,246,1,192,  248,254,1,216,  255,255,1,376,  257,303,2,256,
    305,305,1,73,  307,311,2,306,  314,328,2,313,  331,375,2,330,  378,382,2,377,  383,383,1,83,
    384,384,1,579,  387,389,2,386,  392,392,1,391,  396,396,1,395,  402,402,1,401,  405,405,1,502,
    409,409,1,408,  410,410,1,573,  414,414,1,544,  417,421,2,416,  424,424,1,423,  429,429,1,428,
    432,432,1,431,  436,438,2,435,  441,441,1,440,  445,445,1,444,  447,447,1,503,  453,453,1,452,
    454,454,1,452,  456,456,1,455,  457,457,1,455,  459,459,1,458,  460,460,1,458,  462,476,2,461,
    477,477,1,398,  479,495,2,478,  498,498,1,497,  499,499,1,497,  501,501,1,500,  505,543,2,504,
    547,563,2,546,  572,572,1,571,  575,576,1,11390,  578,578,1,577,  583,591,2,582,
    592,592,1,11375,  593,593,1,11373,  594,594,1,11376,  595,595,1,385,  596,596,1,390,
    598,599,1,393,  601,601,1,399,  603,603,1,400,  604,604,1,42923,  608,608,1,403,
    609,609,1,42924,  611,611,1,404,  613,613,1,42893,  614,614,1,42922,  616,616,1,407,
    617,617,1,406,  618,618,1,42926,  619,619,1,11362,  620,620,1,42925,  623,623,1,412,
    625,625,1,11374,  626,626,1,413,  629,629,1,415,  637,637,1,11364,  640,640,1,422,
    642,642,1,42949,  643,643,1,425,  647,647,1,42929,  648,648,1,430,  649,649,1,580,
    650,651,1,433,  652,652,1,581,  658,658,1,439,  669,669,1,42930,  670,670,1,42928,
    837,837,1,921,  881,883,2,880,  887,887,1,886,  891,893,1,1021,  940,940,1,902,  941,943,1,904,
    945,961,1,913,  962,962,1,931,  963,971,1,931,  972,972,1,908,  973,974,1,910,  976,976,1,914,
    977,977,1,920,  981,981,1,934,  982,982,1,928,  983,983,1,975,  985,1007,2,984,
    1008,1008,1,922,  1009,1009,1,929,  1010,1010,1,1017,  1011,1011,1,895,  1013,1013,1,917,
    1016,1016,1,1015,  1019,1019,1,1018,  1072,1103,1,1040,  1104,1119,1,1024,  1121,1153,2,1120,
    1163,1215,2,1162,  1218,1230,2,1217,  1231,1231,1,1216,  1233,1327,2,1232,  1377,1414,1,1329,
    4304,4346,1,7312,  4349,4351,1,7357,  5112,5117,1,5104,  7296,7296,1,1042,  7297,7297,1,1044,
    7298,7298,1,1054,  7299,7300,1,1057,  7301,7301,1,1058,  7302,7302,1,1066,  7303,7303,1,1122,
    7304,7304,1,42570,  7545,7545,1,42877,  7549,7549,1,11363,  7566,7566,1,42950,
    7681,7829,2,7680,  7835,7835,1,7776,  7841,7935,2,7840,  7936,7943,1,7944,  7952,7957,1,7960,
    7968,7975,1,7976,  7984,7991,1,7992,  8000,8005,1,8008,  8017,8023,2,8025,  8032,8039,1,8040,
    8048,8049,1,8122,  8050,8053,1,8136,  8054,8055,1,8154,  8056,8057,1,8184,  8058,8059,1,8170,
    8060,8061,1,8186,  8112,8113,1,8120,  8126,8126,1,921,  8144,8145,1,8152,  8160,8161,1,8168,
    8165,8165,1,8172,  8526,8526,1,8498,  8560,8575,1,8544,  8580,8580,1,8579,  9424,9449,1,9398,
    11312,11359,1,11264,  11361,11361,1,11360,  11365,11365,1,570,  11366,11366,1,574,
    11368,11372,2,11367,  11379,11379,1,11378,  11382,11382,1,11381,  11393,11491,2,11392,
    11500,11502,2,11499,  11507,11507,1,11506,  11520,11557,1,4256,  11559,11559,1,4295,
    11565,11565,1,4301,  42561,42605,2,42560,  42625,42651,2,42624,  42787,42799,2,42786,
    42803,42863,2,42802,  42874,42876,2,42873,  42879,42887,2,42878,  42892,42892,1,42891,
    42897,42899,2,42896,  42900,42900,1,42948,  42903,42921,2,42902,  42933,42947,2,42932,
    42952,42954,2,42951,  42961,42961,1,42960,  42967,42969,2,42966,  42998,42998,1,42997,
    43859,43859,1,42931,  43888,43967,1,5024,  65345,65370,1,65313,  66600,66639,1,66560,
    66776,66811,1,66736,  66967,67003,2,66928,  66968,66976,2,66929,  66980,66992,2,66941,
    66996,67000,2,66957,  67004,67004,1,66965,  68800,68850,1,68736,  71872,71903,1,71840,
    93792,93823,1,93760,  125218,125251,1,125184 >>
\* the characters whose str.lower() / str.upper() has more than one character,
\* as entries of four numbers: the code point, then the two or three code
\* points of its mapping (0: no third one)
LowerSpecial == <<
    304,105,775,0 >>
UpperSpecial == <<
    223,83,83,0,  329,700,78,0,  496,74,780,0,  912,921,776,769,  944,933,776,769,
    1415,1333,1362,0,  7830,72,817,0,  7831,84,776,0,  7832,87,778,0,  7833,89,778,0,
    7834,65,702,0,  8016,933,787,0,  8018,933,787,768,  8020,933,787,769,  8022,933,787,834,
    8064,7944,921,0,  8065,7945,921,0,  8066,7946,921,0,  8067,7947,921,0,  8068,7948,921,0,
    8069,7949,921,0,  8070,7950,921,0,  8071,7951,921,0,  8072,7944,921,0,  8073,7945,921,0,
    8074,7946,921,0,  8075,7947,921,0,  8076,7948,921,0,  8077,7949,921,0,  8078,7950,921,0,
    8079,7951,921,0,  8080,7976,921,0,  8081,7977,921,0,  8082,7978,921,0,  8083,7979,921,0,
    8084,7980,921,0,  8085,7981,921,0,  8086,7982,921,0,  8087,7983,921,0,  8088,7976,921,0,
    8089,7977,921,0,  8090,7978,921,0,  8091,7979,921,0,  8092,7980,921,0,  8093,7981,921,0,
    8094,7982,921,0,  8095,7983,921,0,  8096,8040,921,0,  8097,8041,921,0,  8098,8042,921,0,
    8099,8043,921,0,  8100,8044,921,0,  8101,8045,921,0,  8102,8046,921,0,  8103,8047,921,0,
    8104,8040,921,0,  8105,8041,921,0,  8106,8042,921,0,  8107,8043,921,0,  8108,8044,921,0,
    8109,8045,921,0,  8110,8046,921,0,  8111,8047,921,0,  8114,8122,921,0,  8115,913,921,0,
    8116,902,921,0,  8118,913,834,0,  8119,913,834,921,  8124,913,921,0,  8130,8138,921,0,
    8131,919,921,0,  8132,905,921,0,  8134,919,834,0,  8135,919,834,921,  8140,919,921,0,
    8146,921,776,768,  8147,921,776,769,  8150,921,834,0,  8151,921,776,834,  8162,933,776,768,
    8163,933,776,769,  8164,929,787,0,  8166,933,834,0,  8167,933,776,834,  8178,8186,921,0,
    8179,937,921,0,  8180,911,921,0,  8182,937,834,0,  8183,937,834,921,  8188,937,921,0,
    64256,70,70,0,  64257,70,73,0,  64258,70,76,0,  64259,70,70,73,  64260,70,70,76,  64261,83,84,0,
    64262,83,84,0,  64275,1348,1350,0,  64276,1348,1333,0,  64277,1348,1339,0,  64278,1358,1350,0,
    64279,1348,1341,0 >>
\* is code point n one of rule i
InRule(n, rules, i) ==
    /\ n >= rules[4 * i - 3]
    /\ n <= rules[4 * i - 2]
    /\ (n - rules[4 * i - 3]) % rules[4 * i - 1] = 0
RuleTo(rules, n, i) == rules[4 * i] + (n - rules[4 * i - 3])
Rules(rules) == 1..(Len(rules) \div 4)
RuleCodes(rules) ==
    UNION {{rules[4 * i - 3] + k * rules[4 * i - 1] :
                k \in 0..((rules[4 * i - 2] - rules[4 * i - 3]) \div rules[4 * i - 1])} :
              i \in Rules(rules)}
SpecialCodes(special) == {special[4 * i - 3] : i \in Rules(special)}
\* the mapping of entry i of special, as a str
SpecialStr(special, i) ==
    [k \in 1..(IF special[4 * i] = 0 THEN 2 ELSE 3) |-> Chr(special[4 * i - 3 + k])]
\* the mapping of code point n: the special one, or the rule's, as a str
MapCode(rules, special, n) ==
    IF n \in SpecialCodes(special)
    THEN SpecialStr(special, CHOOSE i \in Rules(special) : special[4 * i - 3] = n)
    ELSE <<Chr(RuleTo(rules, n, CHOOSE i \in Rules(rules) : InRule(n, rules, i)))>>
\* the characters str.lower() and str.upper() change
LowerChanged == {Chr(n) : n \in RuleCodes(LowerRules) \cup SpecialCodes(LowerSpecial)}
UpperChanged == {Chr(n) : n \in RuleCodes(UpperRules) \cup SpecialCodes(UpperSpecial)}
\* str.lower() and str.upper() of one character: a str, since the full case
\* mapping of a character may have several characters
LowerOf == [c \in LowerChanged |-> MapCode(LowerRules, LowerSpecial, Ord(c))]
UpperOf == [c \in UpperChanged |-> MapCode(UpperRules, UpperSpecial, Ord(c))]
ToLower(c) == IF c \in LowerChanged THEN LowerOf[c] ELSE <<c>>
ToUpper(c) == IF c \in UpperChanged THEN UpperOf[c] ELSE <<c>>

\* str.lower() maps a capital sigma to the final sigma when the nearest
\* character before it that is not case-ignorable is cased and the nearest
\* such character after it is not.
\* CasedRanges: the cased characters that are not case-ignorable
CasedRanges == <<
    65,90,  97,122,  170,170,  181,181,  186,186,  192,214,  216,246,  248,442,  444,447,  452,659,
    661,687,  880,883,  886,887,  891,893,  895,895,  902,902,  904,906,  908,908,  910,929,
    931,1013,  1015,1153,  1162,1327,  1329,1366,  1376,1416,  4256,4293,  4295,4295,  4301,4301,
    4304,4346,  4349,4351,  5024,5109,  5112,5117,  7296,7304,  7312,7354,  7357,7359,  7424,7467,
    7531,7543,  7545,7578,  7680,7957,  7960,7965,  7968,8005,  8008,8013,  8016,8023,  8025,8025,
    8027,8027,  8029,8029,  8031,8061,  8064,8116,  8118,8124,  8126,8126,  8130,8132,  8134,8140,
    8144,8147,  8150,8155,  8160,8172,  8178,8180,  8182,8188,  8450,8450,  8455,8455,  8458,8467,
    8469,8469,  8473,8477,  8484,8484,  8486,8486,  8488,8488,  8490,8493,  8495,8500,  8505,8505,
    8508,8511,  8517,8521,  8526,8526,  8544,8575,  8579,8580,  9398,9449,  11264,11387,
    11390,11492,  11499,11502,  11506,11507,  11520,11557,  11559,11559,  11565,11565,  42560,42605,
    42624,42651,  42786,42863,  42865,42887,  42891,42894,  42896,42954,  42960,42961,  42963,42963,
    42965,42969,  42997,42998,  43002,43002,  43824,43866,  43872,43880,  43888,43967,  64256,64262,
    64275,64279,  65313,65338,  65345,65370,  66560,66639,  66736,66771,  66776,66811,  66928,66938,
    66940,66954,  66956,66962,  66964,66965,  66967,66977,  66979,66993,  66995,67001,  67003,67004,
    68736,68786,  68800,68850,  71840,71903,  93760,93823,  119808,119892,  119894,119964,
    119966,119967,  119970,119970,  119973,119974,  119977,119980,  119982,119993,  119995,119995,
    119997,120003,  120005,120069,  120071,120074,  120077,120084,  120086,120092,  120094,120121,
    120123,120126,  120128,120132,  120134,120134,  120138,120144,  120146,120485,  120488,120512,
    120514,120538,  120540,120570,  120572,120596,  120598,120628,  120630,120654,  120656,120686,
    120688,120712,  120714,120744,  120746,120770,  120772,120779,  122624,122633,  122635,122654,
    125184,125251,  127280,127305,  127312,127337,  127344,127369 >>
CaseIgnorableRanges == <<
    39,39,  46,46,  58,58,  94,94,  96,96,  168,168,  173,173,  175,175,  180,180,  183,184,
    688,879,  884,885,  890,890,  900,901,  903,903,  1155,1161,  1369,1369,  1375,1375,  1425,1469,
    1471,1471,  1473,1474,  1476,1477,  1479,1479,  1524,1524,  1536,1541,  1552,1562,  1564,1564,
    1600,1600,  1611,1631,  1648,1648,  1750,1757,  1759,1768,  1770,1773,  1807,1807,  1809,1809,
    1840,1866,  1958,1968,  2027,2037,  2042,2042,  2045,2045,  2070,2093,  2137,2139,  2184,2184,
    2192,2193,  2200,2207,  2249,2306,  2362,2362,  2364,2364,  2369,2376,  2381,2381,  2385,2391,
    2402,2403,  2417,2417,  2433,2433,  2492,2492,  2497,2500,  2509,2509,  2530,2531,  2558,2558,
    2561,2562,  2620,2620,  2625,2626,  2631,2632,  2635,2637,  2641,2641,  2672,2673,  2677,2677,
    2689,2690,  2748,2748,  2753,2757,  2759,2760,  2765,2765,  2786,2787,  2810,2815,  2817,2817,
    2876,2876,  2879,2879,  2881,2884,  2893,2893,  2901,2902,  2914,2915,  2946,2946,  3008,3008,
    3021,3021,  3072,3072,  3076,3076,  3132,3132,  3134,3136,  3142,3144,  3146,3149,  3157,3158,
    3170,3171,  3201,3201,  3260,3260,  3263,3263,  3270,3270,  3276,3277,  3298,3299,  3328,3329,
    3387,3388,  3393,3396,  3405,3405,  3426,3427,  3457,3457,  3530,3530,  3538,3540,  3542,3542,
    3633,3633,  3636,3642,  3654,3662,  3761,3761,  3764,3772,  3782,3782,  3784,3789,  3864,3865,
    3893,3893,  3895,3895,  3897,3897,  3953,3966,  3968,3972,  3974,3975,  3981,3991,  3993,4028,
    4038,4038,  4141,4144,  4146,4151,  4153,4154,  4157,4158,  4184,4185,  4190,4192,  4209,4212,
    4226,4226,  4229,4230,  4237,4237,  4253,4253,  4348,4348,  4957,4959,  5906,5908,  5938,5939,
    5970,5971,  6002,6003,  6068,6069,  6071,6077,  6086,6086,  6089,6099,  6103,6103,  6109,6109,
    6155,6159,  6211,6211,  6277,6278,  6313,6313,  6432,6434,  6439,6440,  6450,6450,  6457,6459,
    6679,6680,  6683,6683,  6742,6742,  6744,6750,  6752,6752,  6754,6754,  6757,6764,  6771,6780,
    6783,6783,  6823,6823,  6832,6862,  6912,6915,  6964,6964,  6966,6970,  6972,6972,  6978,6978,
    7019,7027,  7040,7041,  7074,7077,  7080,7081,  7083,7085,  7142,7142,  7144,7145,  7149,7149,
    7151,7153,  7212,7219,  7222,7223,  7288,7293,  7376,7378,  7380,7392,  7394,7400,  7405,7405,
    7412,7412,  7416,7417,  7468,7530,  7544,7544,  7579,7679,  8125,8125,  8127,8129,  8141,8143,
    8157,8159,  8173,8175,  8189,8190,  8203,8207,  8216,8217,  8228,8228,  8231,8231,  8234,8238,
    8288,8292,  8294,8303,  8305,8305,  8319,8319,  8336,8348,  8400,8432,  11388,11389,
    11503,11505,  11631,11631,  11647,11647,  11744,11775,  11823,11823,  12293,12293,  12330,12333,
    12337,12341,  12347,12347,  12441,12446,  12540,12542,  40981,40981,  42232,42237,  42508,42508,
    42607,42610,  42612,42621,  42623,42623,  42652,42655,  42736,42737,  42752,42785,  42864,42864,
    42888,42890,  42994,42996,  43000,43001,  43010,43010,  43014,43014,  43019,43019,  43045,43046,
    43052,43052,  43204,43205,  43232,43249,  43263,43263,  43302,43309,  43335,43345,  43392,43394,
    43443,43443,  43446,43449,  43452,43453,  43471,43471,  43493,43494,  43561,43566,  43569,43570,
    43573,43574,  43587,43587,  43596,43596,  43632,43632,  43644,43644,  43696,43696,  43698,43700,
    43703,43704,  43710,43711,  43713,43713,  43741,43741,  43756,43757,  43763,43764,  43766,43766,
    43867,43871,  43881,43883,  44005,44005,  44008,44008,  44013,44013,  64286,64286,  64434,64450,
    65024,65039,  65043,65043,  65056,65071,  65106,65106,  65109,65109,  65279,65279,  65287,65287,
    65294,65294,  65306,65306,  65342,65342,  65344,65344,  65392,65392,  65438,65439,  65507,65507,
    65529,65531,  66045,66045,  66272,66272,  66422,66426,  67456,67461,  67463,67504,  67506,67514,
    68097,68099,  68101,68102,  68108,68111,  68152,68154,  68159,68159,  68325,68326,  68900,68903,
    69291,69292,  69446,69456,  69506,69509,  69633,69633,  69688,69702,  69744,69744,  69747,69748,
    69759,69761,  69811,69814,  69817,69818,  69821,69821,  69826,69826,  69837,69837,  69888,69890,
    69927,69931,  69933,69940,  70003,70003,  70016,70017,  70070,70078,  70089,70092,  70095,70095,
    70191,70193,  70196,70196,  70198,70199,  70206,70206,  70367,70367,  70371,70378,  70400,70401,
    70459,70460,  70464,70464,  70502,70508,  70512,70516,  70712,70719,  70722,70724,  70726,70726,
    70750,70750,  70835,70840,  70842,70842,  70847,70848,  70850,70851,  71090,71093,  71100,71101,
    71103,71104,  71132,71133,  71219,71226,  71229,71229,  71231,71232,  71339,71339,  71341,71341,
    71344,71349,  71351,71351,  71453,71455,  71458,71461,  71463,71467,  71727,71735,  71737,71738,
    71995,71996,  71998,71998,  72003,72003,  72148,72151,  72154,72155,  72160,72160,  72193,72202,
    72243,72248,  72251,72254,  72263,72263,  72273,72278,  72281,72283,  72330,72342,  72344,72345,
    72752,72758,  72760,72765,  72767,72767,  72850,72871,  72874,72880,  72882,72883,  72885,72886,
    73009,73014,  73018,73018,  73020,73021,  73023,73029,  73031,73031,  73104,73105,  73109,73109,
    73111,73111,  73459,73460,  78896,78904,  92912,92916,  92976,92982,  92992,92995,  94031,94031,
    94095,94111,  94176,94177,  94179,94180,  110576,110579,  110581,110587,  110589,110590,
    113821,113822,  113824,113827,  118528,118573,  118576,118598,  119143,119145,  119155,119170,
    119173,119179,  119210,119213,  119362,119364,  121344,121398,  121403,121452,  121461,121461,
    121476,121476,  121499,121503,  121505,121519,  122880,122886,  122888,122904,  122907,122913,
    122915,122916,  122918,122922,  123184,123197,  123566,123566,  123628,123631,  125136,125142,
    125252,125259,  127995,127999,  917505,917505,  917536,917631,  917760,917999 >>
CasedLetters == Chars(CasedRanges)
CaseIgnorable == Chars(CaseIgnorableRanges)
CasedBefore(s, i) ==
    \E j \in 1..(i - 1) :
        s[j] \in CasedLetters /\ \A k \in (j + 1)..(i - 1) : s[k] \in CaseIgnorable
CasedAfter(s, i) ==
    \E j \in (i + 1)..Len(s) :
        s[j] \in CasedLetters /\ \A k \in (i + 1)..(j - 1) : s[k] \in CaseIgnorable
FinalSigma(s, i) == CasedBefore(s, i) /\ ~CasedAfter(s, i)
LowerAt(s, i) ==
    IF s[i] = "U+03A3"
    THEN IF FinalSigma(s, i) THEN <<"U+03C2">> ELSE <<"U+03C3">>
    ELSE ToLower(s[i])

\* str.lower(), str.upper()
RECURSIVE LowerFrom(_, _)
LowerFrom(s, i) == IF i > Len(s) THEN <<>> ELSE LowerAt(s, i) \o LowerFrom(s, i + 1)
Lower(s) == LowerFrom(s, 1)
RECURSIVE Upper(_)
Upper(s) == IF s = <<>> THEN <<>> ELSE ToUpper(Head(s)) \o Upper(Tail(s))

\* str.strip(): leading and trailing whitespace removed
RECURSIVE LStrip(_)
LStrip(s) == IF s # <<>> /\ Head(s) \in Space THEN LStrip(Tail(s)) ELSE s
RECURSIVE RStrip(_)
RStrip(s) == IF s # <<>> /\ s[Len(s)] \in Space THEN RStrip(SubSeq(s, 1, Len(s) - 1)) ELSE s
Strip(s) == RStrip(LStrip(s))

\* sub in s
Contains(s, sub) ==
    \E i \in 1..(Len(s) - Len(sub) + 1) : SubSeq(s, i, i + Len(sub) - 1) = sub

\* int(s): whitespace stripped, an optional sign, then decimal digits with single
\* underscores between them; ValueError on anything else, and ValueError when
\* the numeral has more than sys.get_int_max_str_digits() digits
IntMaxStrDigits == 4300
\* the whitespace int() skips: U+001C..U+001F are left in place
IntSpace == Space \ Chars(<<28, 31>>)
RECURSIVE IntLStrip(_)
IntLStrip(s) == IF s # <<>> /\ Head(s) \in IntSpace THEN IntLStrip(Tail(s)) ELSE s
RECURSIVE IntRStrip(_)
IntRStrip(s) ==
    IF s # <<>> /\ s[Len(s)] \in IntSpace THEN IntRStrip(SubSeq(s, 1, Len(s) - 1)) ELSE s
IntStrip(s) == IntRStrip(IntLStrip(s))
IntBody(s) == IF s # <<>> /\ Head(s) \in {"+", "-"} THEN Tail(s) ELSE s
\* the positions where int() stops reading b: past its end, or at a character
\* that is neither a digit nor an underscore
NumeralStops(b) == {Len(b) + 1} \cup {i \in 1..Len(b) : b[i] \notin Digit \cup {"_"}}
NumeralEnd(stops) == CHOOSE i \in stops : \A j \in stops : i <= j
\* the run b[1..end-1] of digits and underscores begins or ends with an
\* underscore, or has two in a row
RunBad(b, end) ==
    /\ end > 1
    /\ \/ b[1] = "_"
       \/ b[end - 1] = "_"
       \/ \E i \in 1..(end - 2) : b[i] = "_" /\ b[i + 1] = "_"
NumeralBad(b) == RunBad(b, NumeralEnd(NumeralStops(b)))
DigitsBefore(b, end) == Cardinality({i \in 1..(end - 1) : b[i] \in Digit})
\* the number of digits int() reads before it stops
NumeralDigits(b) == DigitsBefore(b, NumeralEnd(NumeralStops(b)))
IsNumeral(b) == b # <<>> /\ NumeralStops(b) = {Len(b) + 1} /\ ~NumeralBad(b)
IsInt(s) == IsNumeral(IntBody(IntStrip(s)))
DigitZero(n) == CHOOSE z \in Range(DigitZeros) : z <= n /\ n <= z + 9
DigitVal(c) == Ord(c) - DigitZero(Ord(c))
RECURSIVE NumeralVal(_)
NumeralVal(b) ==
    IF b = <<>> THEN 0
    ELSE IF b[Len(b)] = "_" THEN NumeralVal(SubSeq(b, 1, Len(b) - 1))
    ELSE 10 * NumeralVal(SubSeq(b, 1, Len(b) - 1)) + DigitVal(b[Len(b)])
IntVal(s) ==
    IF Head(IntStrip(s)) = "-" THEN 0 - NumeralVal(IntBody(IntStrip(s)))
    ELSE NumeralVal(IntBody(IntStrip(s)))
\* a malformed run of digits and underscores is reported before the digit
\* limit, the digit limit before what follows the run
PyInt(s) ==
    IF NumeralBad(IntBody(IntStrip(s)))
    THEN Raise("ValueError: invalid literal for int() with base 10")
    ELSE IF NumeralDigits(IntBody(IntStrip(s))) > IntMaxStrDigits
    THEN Raise("ValueError: Exceeds the limit (4300 digits) for integer string conversion")
    ELSE IF IsInt(s) THEN Ok(IntVal(s))
    ELSE Raise("ValueError: invalid literal for int() with base 10")

\* str(n) for n >= 0
RECURSIVE StrInt(_)
StrInt(n) == IF n < 10 THEN <<DigitChars[n + 1]>>
             ELSE Append(StrInt(n \div 10), DigitChars[(n % 10) + 1])

(***************************************************************************)
(* Regular expressions: re.search with Python's backtracking semantics.    *)
(* A pattern is a tree; M returns, in priority order (greedy repetition,   *)
(* alternatives left to right), every way the pattern matches at a         *)
(* position; re.search takes the first way at the leftmost start.          *)
(***************************************************************************)
\* re.IGNORECASE: the regex engine lowers the character with the one-character
\* lower case (the first character of the full mapping), the compiler lowers
\* the characters of the pattern the same way and adds their equivalents
SreLower(c) == Head(ToLower(c))
\* re._casefix._EXTRA_CASES: the lowered characters that count as the same
ExtraCases == {
    {105,305}, {115,383}, {181,956}, {837,953,8126}, {912,8147}, {944,8163}, {946,976}, {949,1013},
    {952,977}, {954,1008}, {960,982}, {961,1009}, {962,963}, {966,981}, {1074,7296}, {1076,7297},
    {1086,7298}, {1089,7299}, {1090,7300,7301}, {1098,7302}, {1123,7303}, {7304,42571}, {7777,7835},
    {64261,64262} }
ExtraChars == {{Chr(n) : n \in e} : e \in ExtraCases}
\* the lowered character l and the characters that count as the same
SameCase(l) == {l} \cup UNION {e \in ExtraChars : l \in e}
\* what the compiler makes of the literal characters cs of a set under
\* re.IGNORECASE: the lowered characters the set matches
Fold(cs) == UNION {SameCase(l) : l \in {SreLower(x) : x \in cs}}

\* a set of characters: the literal characters cs (low: as compiled under
\* re.IGNORECASE) and the classes cat (\d, \s)
SetClass(cs, cat) == [t |-> "set", cs |-> cs, low |-> Fold(cs), cat |-> cat]
Set(cs) == SetClass(cs, {})                         \* one character of cs
Class(cat) == SetClass({}, cat)                     \* one character of the class
Cat(rs) == [t |-> "cat", rs |-> rs]                 \* rs[1] rs[2] ...
Alt(rs) == [t |-> "alt", rs |-> rs]                 \* rs[1] | rs[2] | ...
Rep(r, lo, hi) == [t |-> "rep", r |-> r, lo |-> lo, hi |-> hi]  \* r{lo,hi}; hi = -1: no limit
Grp(n, r) == [t |-> "grp", n |-> n, r |-> r]        \* capture group n
WB == [t |-> "wb"]                                   \* \b
Lit(s) == Cat([i \in 1..Len(s) |-> Set({s[i]})])    \* literal text
Plus(r) == Rep(r, 1, -1)
Star(r) == Rep(r, 0, -1)
Opt(r) == Rep(r, 0, 1)
Times(r, n) == Rep(r, n, n)

\* the largest group number any pattern of the program uses
NGroups == 2

\* does character c match the set r (ic: under re.IGNORECASE, where the
\* lowered character is tested, against the classes too)
CharIn(c, r, ic) == IF ic THEN SreLower(c) \in r.low \cup r.cat ELSE c \in r.cs \cup r.cat

IsWordAt(s, i) == i >= 1 /\ i <= Len(s) /\ s[i] \in WordCh

RECURSIVE M(_, _, _, _)
RECURSIVE Each(_, _, _, _)
RECURSIVE MCat(_, _, _, _, _)
RECURSIVE MAlt(_, _, _, _, _)
RECURSIVE MRep(_, _, _, _, _, _)
RECURSIVE EachRep(_, _, _, _, _, _)

\* every st2 reached from st by matching r, in priority order
M(r, s, ic, st) ==
    CASE r.t = "set" ->
           IF st.pos <= Len(s) /\ CharIn(s[st.pos], r, ic)
           THEN <<[st EXCEPT !.pos = @ + 1]>> ELSE <<>>
      [] r.t = "cat" -> MCat(r.rs, 1, s, ic, <<st>>)
      [] r.t = "alt" -> MAlt(r.rs, 1, s, ic, st)
      [] r.t = "rep" -> MRep(r.r, r.lo, r.hi, s, ic, st)
      [] r.t = "grp" ->
           LET ends == M(r.r, s, ic, st)
           IN [j \in 1..Len(ends) |->
                 [ends[j] EXCEPT !.caps[r.n] = <<st.pos, ends[j].pos>>]]
      [] r.t = "wb" ->
           IF IsWordAt(s, st.pos - 1) # IsWordAt(s, st.pos) THEN <<st>> ELSE <<>>

Each(r, s, ic, sts) ==
    IF sts = <<>> THEN <<>>
    ELSE M(r, s, ic, Head(sts)) \o Each(r, s, ic, Tail(sts))

MCat(rs, k, s, ic, sts) ==
    IF k > Len(rs) \/ sts = <<>> THEN sts
    ELSE MCat(rs, k + 1, s, ic, Each(rs[k], s, ic, sts))

MAlt(rs, k, s, ic, st) ==
    IF k > Len(rs) THEN <<>>
    ELSE M(rs[k], s, ic, st) \o MAlt(rs, k + 1, s, ic, st)

\* the most characters a run at s[i..] may have (hi < 0: no limit)
RunRoom(s, i, hi) == IF hi >= 0 /\ hi < Len(s) - i + 1 THEN hi ELSE Len(s) - i + 1
RECURSIVE RunFrom(_, _, _, _, _)
RunFrom(r, s, ic, i, room) ==
    IF room = 0 \/ ~CharIn(s[i], r, ic) THEN 0
    ELSE 1 + RunFrom(r, s, ic, i + 1, room - 1)
\* the length of the longest run of characters of the set r at s[i..], at most hi
RunLen(r, s, ic, i, hi) == RunFrom(r, s, ic, i, RunRoom(s, i, hi))

\* greedy: first the ways that repeat r once more, then the way that stops.
\* For a repeated character set that is the runs from the longest to the
\* shortest allowed.
MRep(r, lo, hi, s, ic, st) ==
    IF r.t = "set"
    THEN LET n == RunLen(r, s, ic, st.pos, hi)
             least == IF lo > 0 THEN lo ELSE 0
         IN [j \in 1..(n - least + 1) |-> [st EXCEPT !.pos = st.pos + n - j + 1]]
    ELSE LET once == SelectSeq(M(r, s, ic, st), LAMBDA x : x.pos > st.pos)
             more == IF hi = 0 THEN <<>> ELSE EachRep(r, lo - 1, hi - 1, s, ic, once)
             stop == IF lo <= 0 THEN <<st>> ELSE <<>>
         IN more \o stop

EachRep(r, lo, hi, s, ic, sts) ==
    IF sts = <<>> THEN <<>>
    ELSE MRep(r, lo, hi, s, ic, Head(sts)) \o EachRep(r, lo, hi, s, ic, Tail(sts))

NoMatch == [ok |-> FALSE]

MatchAt(r, s, ic, i) == M(r, s, ic, [pos |-> i, caps |-> [n \in 1..NGroups |-> <<>>]])

\* re.search(r, s) / re.search(r, s, re.IGNORECASE): None, or the match object
RECURSIVE SearchFrom(_, _, _, _)
\* the match at start i when ways is not empty, otherwise the search goes on
MatchOr(ways, r, s, ic, i) ==
    IF ways # <<>>
    THEN [ok |-> TRUE, start |-> i, end |-> ways[1].pos, caps |-> ways[1].caps]
    ELSE SearchFrom(r, s, ic, i + 1)

SearchFrom(r, s, ic, i) ==
    IF i > Len(s) + 1 THEN NoMatch
    ELSE MatchOr(MatchAt(r, s, ic, i), r, s, ic, i)

Search(r, s) == SearchFrom(r, s, FALSE, 1)
SearchI(r, s) == SearchFrom(r, s, TRUE, 1)

\* match.group(n)
Group(s, m, n) == SubSeq(s, m.caps[n][1], m.caps[n][2] - 1)

(***************************************************************************)
(* Python dicts                                                            *)
(***************************************************************************)
EmptyDict == <<>>
Has(d, k) == k \in DOMAIN d
\* d[k] = v
Put(d, k, v) == (k :> v) @@ d
\* d.get(k, default)
Get(d, k, default) == IF k \in DOMAIN d THEN d[k] ELSE default

StrV(s) == [str |-> s]
\* None
NoneV == [none |-> TRUE]
DictV(d) == [dict |-> d]
\* isinstance(v, str)
IsStr(v) == "str" \in DOMAIN v

\* sum(d[k] for k in ks)
RECURSIVE SumOver(_, _)
SumOver(d, ks) ==
    IF ks = {} THEN 0
    ELSE LET k == CHOOSE x \in ks : TRUE IN d[k] + SumOver(d, ks \ {k})

(***************************************************************************)
(* nlp_extractor.py: extract_passenger_info                                *)
(***************************************************************************)
Digits1 == Plus(Class(Digit))         \* \d+
Spaces0 == Star(Class(Space))         \* \s*
Spaces1 == Plus(Class(Space))         \* \s+

\* (\d+)\s*(?:adult\s*)?(?:men|man|male)
PaxMaleRe ==
    Cat(<<Grp(1, Digits1), Spaces0,
          Opt(Cat(<<Lit(<<"a","d","u","l","t">>), Spaces0>>)),
          Alt(<<Lit(<<"m","e","n">>), Lit(<<"m","a","n">>), Lit(<<"m","a","l","e">>)>>)>>)
\* (\d+)\s*(?:adult\s*)?(?:women|woman|female)
PaxFemaleRe ==
    Cat(<<Grp(1, Digits1), Spaces0,
          Opt(Cat(<<Lit(<<"a","d","u","l","t">>), Spaces0>>)),
          Alt(<<Lit(<<"w","o","m","e","n">>), Lit(<<"w","o","m","a","n">>),
                Lit(<<"f","e","m","a","l","e">>)>>)>>)
\* (\d+)\s*female\s*minor
PaxMinorFemaleRe ==
    Cat(<<Grp(1, Digits1), Spaces0, Lit(<<"f","e","m","a","l","e">>), Spaces0,
          Lit(<<"m","i","n","o","r">>)>>)
\* (\d+)\s*male\s*minor
PaxMinorMaleRe ==
    Cat(<<Grp(1, Digits1), Spaces0, Lit(<<"m","a","l","e">>), Spaces0,
          Lit(<<"m","i","n","o","r">>)>>)
\* (\d+)\s*(kids|children|child|minor)
PaxMinorRe ==
    Cat(<<Grp(1, Digits1), Spaces0,
          Grp(2, Alt(<<Lit(<<"k","i","d","s">>),
                       Lit(<<"c","h","i","l","d","r","e","n">>),
                       Lit(<<"c","h","i","l","d">>),
                       Lit(<<"m","i","n","o","r">>)>>))>>)

\* passengers[key] = int(...): the dict with the count stored, or what int() raised
PaxPut(passengers, key, n) == IF n.ok THEN Ok(Put(passengers, key, n.v)) ELSE n

\* one "match = re.search(...); if match: passengers[key] = int(match.group(1))"
PaxSet(passengers, key, match, txt) ==
    IF match.ok THEN PaxPut(passengers, key, PyInt(Group(txt, match, 1)))
    ELSE Ok(passengers)

\* the statement is reached only when no statement before it raised
PaxField(p, key, re, txt) ==
    IF p.ok THEN PaxSet(p.v, key, SearchI(re, txt), txt) ELSE p

\* PaxTotal with the number of fields in place of their sum
PaxTotalCount(passengers) ==
    IF passengers # EmptyDict
    THEN Put(passengers, "total", Cardinality(DOMAIN passengers))
    ELSE passengers

\* "if passengers: passengers['total'] = sum(passengers.values())"
PaxTotal(passengers) ==
    IF passengers # EmptyDict
    THEN Put(passengers, "total", SumOver(passengers, DOMAIN passengers))
    ELSE passengers

PaxResult(p) == IF p.ok THEN Ok(PaxTotal(p.v)) ELSE p

\* extract_passenger_info(text): Ok(passengers), or the ValueError int() raised
extract_passenger_info(txt) ==
    PaxResult(
      PaxField(
        PaxField(
          PaxField(
            PaxField(
              PaxField(Ok(EmptyDict), "adult_male", PaxMaleRe, txt),
              "adult_female", PaxFemaleRe, txt),
            "minor_female", PaxMinorFemaleRe, txt),
          "minor_male", PaxMinorMaleRe, txt),
        "minor", PaxMinorRe, txt))

(***************************************************************************)
(* nlp_extractor.py: extract_entities                                      *)
(***************************************************************************)
\* [A-Z][a-z]+(?:\s+[A-Z][a-z]+)+
CapWord == Cat(<<Set(AZ), Plus(Set(az))>>)
CapWords == Cat(<<CapWord, Plus(Cat(<<Spaces1, CapWord>>))>>)
\* [:\s]+
Label1 == Plus(SetClass({":"}, Space))
\* \d{n}
D(n) == Times(Class(Digit), n)
\* [\d,]+(?:\.\d{2})?
Number == Cat(<<Plus(SetClass({","}, Digit)), Opt(Cat(<<Set({"."}), D(2)>>))>>)
\* [/-]
DateSep == Set({"/", "-"})
\* [\u20b9$]
Currency == Set({"U+20B9", "$"})

\* name_patterns, searched with re.IGNORECASE
name_patterns == <<
    Cat(<<Alt(<<Lit(<<"N","a","m","e">>), Lit(<<"P","a","s","s","e","n","g","e","r">>), Lit(<<"C","u","s","t","o","m","e","r">>)>>), Label1, Grp(1, CapWords)>>),
    Cat(<<Alt(<<Lit(<<"M","r">>), Lit(<<"M","r","s">>), Lit(<<"M","s">>), Lit(<<"D","r">>)>>), Opt(Set({"."})), Spaces1, Grp(1, CapWords)>>) >>

\* date_patterns, case-sensitive
date_patterns == <<
    Cat(<<WB, Grp(1, Cat(<<D(4), Set({"-"}), D(2), Set({"-"}), D(2)>>)), WB>>),
    Cat(<<WB, Grp(1, Cat(<<D(2), Set({"/"}), D(2), Set({"/"}), D(4)>>)), WB>>),
    Cat(<<WB, Grp(1, Cat(<<D(2), Set({"-"}), D(2), Set({"-"}), D(4)>>)), WB>>),
    Cat(<<Alt(<<Lit(<<"D","a","t","e">>), Lit(<<"T","r","a","v","e","l">>), Lit(<<"D","e","p","a","r","t","u","r","e">>)>>), Label1,
          Grp(1, Cat(<<Rep(Class(Digit), 1, 2), DateSep, Rep(Class(Digit), 1, 2), DateSep,
                       Rep(Class(Digit), 2, 4)>>))>>) >>

\* amount_patterns, searched with re.IGNORECASE
amount_patterns == <<
    Cat(<<Currency, Spaces0, Grp(1, Number)>>),
    Cat(<<Alt(<<Lit(<<"A","m","o","u","n","t">>), Lit(<<"T","o","t","a","l">>), Lit(<<"P","r","i","c","e">>), Lit(<<"F","a","r","e">>)>>), Label1, Opt(Currency), Spaces0, Grp(1, Number)>>),
    Cat(<<Alt(<<Cat(<<Lit(<<"R","s">>), Opt(Set({"."}))>>), Lit(<<"I","N","R">>)>>), Spaces0, Grp(1, Number)>>) >>

\* pnr_patterns, case-sensitive
pnr_patterns == <<
    Cat(<<Lit(<<"P","N","R">>), Label1, Grp(1, Rep(Set(AZ \cup Digit09), 6, 10))>>),
    Cat(<<Lit(<<"B","o","o","k","i","n","g">>), Label1, Grp(1, Rep(Set(AZ \cup Digit09), 6, 12))>>),
    Cat(<<Lit(<<"I","D">>), Label1, Grp(1, Rep(Set(AZ \cup Digit09), 6, 12))>>),
    Cat(<<WB, Grp(1, Times(Set(AZ \cup Digit09), 6)), WB>>) >>

\* route_pattern ([A-Za-z]+)\s+to\s+([A-Za-z]+), searched with re.IGNORECASE
route_pattern ==
    Cat(<<Grp(1, Plus(Set(Alpha))), Spaces1, Lit(<<"t","o">>), Spaces1, Grp(2, Plus(Set(Alpha)))>>)

\* "for pattern in patterns: match = re.search(...); if match: ...; break":
\* the match of the first pattern of the list that matches, or NoMatch
RECURSIVE FirstMatch(_, _, _, _)
\* the loop without its break: the last pattern that matches wins
MatchElseLast(match, patterns, k, txt, ic) ==
    IF FirstMatch(patterns, k + 1, txt, ic).ok THEN FirstMatch(patterns, k + 1, txt, ic)
    ELSE match

MatchElse(match, patterns, k, txt, ic) ==
    IF match.ok THEN match ELSE FirstMatch(patterns, k + 1, txt, ic)

FirstMatch(patterns, k, txt, ic) ==
    IF k > Len(patterns) THEN NoMatch
    ELSE MatchElse(SearchFrom(patterns[k], txt, ic, 1), patterns, k, txt, ic)

\* one category of extract_entities: entities[key] = match.group(1) (.strip())
CategorySet(entities, key, match, txt, strip) ==
    IF match.ok
    THEN Put(entities, key,
             StrV(IF strip THEN Strip(Group(txt, match, 1)) ELSE Group(txt, match, 1)))
    ELSE entities

Category(entities, key, patterns, txt, ic, strip) ==
    CategorySet(entities, key, FirstMatch(patterns, 1, txt, ic), txt, strip)

\* the ROUTE block with the two sides of the route key exchanged
RouteSetSwapped(entities, route_match, txt) ==
    LET origin == Strip(Group(txt, route_match, 1))
        destination == Strip(Group(txt, route_match, 2))
    IN IF route_match.ok
       THEN Put(Put(Put(entities, "origin", StrV(origin)),
                    "destination", StrV(destination)),
                "route", StrV(destination \o <<"-">> \o origin))
       ELSE entities

\* the ROUTE block
RouteSet(entities, route_match, txt) ==
    LET origin == Strip(Group(txt, route_match, 1))
        destination == Strip(Group(txt, route_match, 2))
    IN IF route_match.ok
       THEN Put(Put(Put(entities, "origin", StrV(origin)),
                    "destination", StrV(destination)),
                "route", StrV(origin \o <<"-">> \o destination))
       ELSE entities

Route(entities, txt) == RouteSet(entities, SearchI(route_pattern, txt), txt)

\* the PASSENGERS block
PassengersSet(entities, passenger_data) ==
    IF ~passenger_data.ok THEN passenger_data
    ELSE IF passenger_data.v # EmptyDict
    THEN Ok(Put(entities, "passengers", DictV(passenger_data.v)))
    ELSE Ok(entities)

Passengers(entities, txt) == PassengersSet(entities, extract_passenger_info(txt))

\* extract_entities(text): Ok(entities), or the ValueError that
\* extract_passenger_info raised
extract_entities(txt) ==
    Passengers(
      Route(
        Category(
          Category(
            Category(
              Category(EmptyDict, "name", name_patterns, txt, TRUE, TRUE),
              "date", date_patterns, txt, FALSE, FALSE),
            "amount", amount_patterns, txt, TRUE, TRUE),
          "booking_id", pnr_patterns, txt, FALSE, FALSE),
        txt),
      txt)

(***************************************************************************)
(* query_parser.py: normalize_city                                         *)
(***************************************************************************)
\* a dict with str keys, as the sequence of its <<key, value>> items
CITY_TO_IATA == <<
    <<<<"d","e","l","h","i">>, <<"D","E","L">>>>,
    <<<<"m","u","m","b","a","i">>, <<"B","O","M">>>>,
    <<<<"b","a","n","g","a","l","o","r","e">>, <<"B","L","R">>>>,
    <<<<"c","h","e","n","n","a","i">>, <<"M","A","A">>>>,
    <<<<"k","o","l","k","a","t","a">>, <<"C","C","U">>>>,
    <<<<"h","y","d","e","r","a","b","a","d">>, <<"H","Y","D">>>>,
    <<<<"p","u","n","e">>, <<"P","N","Q">>>>,
    <<<<"g","o","a">>, <<"G","O","I">>>>,
    <<<<"a","j","m","a","n">>, <<"A","J","M">>>>,
    <<<<"d","u","b","a","i">>, <<"D","X","B">>>>,
    <<<<"a","b","u"," ","d","h","a","b","i">>, <<"A","U","H">>>>,
    <<<<"s","h","a","r","j","a","h">>, <<"S","H","J">>>>,
    <<<<"n","e","w"," ","y","o","r","k">>, <<"J","F","K">>>>,
    <<<<"l","o","n","d","o","n">>, <<"L","H","R">>>>,
    <<<<"p","a","r","i","s">>, <<"C","D","G">>>>,
    <<<<"s","i","n","g","a","p","o","r","e">>, <<"S","I","N">>>> >>

misspellings == <<
    <<<<"d","e","l","h","e","e">>, <<"d","e","l","h","i">>>>,
    <<<<"d","e","l","i">>, <<"d","e","l","h","i">>>>,
    <<<<"m","u","m","b","i">>, <<"m","u","m","b","a","i">>>>,
    <<<<"b","a","n","g","a","l","o","r">>, <<"b","a","n","g","a","l","o","r","e">>>>,
    <<<<"b","a","n","g","a","l","u","r","u">>, <<"b","a","n","g","a","l","o","r","e">>>> >>

\* table.get(key, default)
TableGet(table, key, default) ==
    IF \E i \in 1..Len(table) : table[i][1] = key
    THEN table[CHOOSE i \in 1..Len(table) : table[i][1] = key][2]
    ELSE default

\* s[:n]
Prefix(s, n) == SubSeq(s, 1, IF Len(s) < n THEN Len(s) ELSE n)

normalize_city(city) ==
    LET c1 == Strip(Lower(city))
        c2 == TableGet(misspellings, c1, c1)
    IN TableGet(CITY_TO_IATA, c2, Prefix(Upper(c2), 3))

(***************************************************************************)
(* query_parser.py: parse_date.  A date is [y, m, d]; datetime arithmetic  *)
(* goes through the day number (days since 1970-01-01).                    *)
(***************************************************************************)
IsLeap(y) == (y % 4 = 0 /\ y % 100 # 0) \/ y % 400 = 0
DaysInMonth(y, m) ==
    IF m = 2 THEN (IF IsLeap(y) THEN 29 ELSE 28)
    ELSE IF m \in {4, 6, 9, 11} THEN 30 ELSE 31

\* the day number of a date of the proleptic Gregorian calendar
DayNumber(dt) ==
    LET y == IF dt.m <= 2 THEN dt.y - 1 ELSE dt.y
        era == y \div 400
        yoe == y - era * 400
        mp == IF dt.m > 2 THEN dt.m - 3 ELSE dt.m + 9
        doy == (153 * mp + 2) \div 5 + dt.d - 1
        doe == yoe * 365 + yoe \div 4 - yoe \div 100 + doy
    IN era * 146097 + doe - 719468

\* the date of a day number
DateOf(z0) ==
    LET z == z0 + 719468
        era == z \div 146097
        doe == z - era * 146097
        yoe == (doe - doe \div 1460 + doe \div 36524 - doe \div 146096) \div 365
        doy == doe - (365 * yoe + yoe \div 4 - yoe \div 100)
        mp == (5 * doy + 2) \div 153
        d == doy - (153 * mp + 2) \div 5 + 1
        m == IF mp < 10 THEN mp + 3 ELSE mp - 9
        y == yoe + era * 400
    IN [y |-> IF m <= 2 THEN y + 1 ELSE y, m |-> m, d |-> d]

\* datetime.weekday(): Monday is 0
Weekday(dt) == (DayNumber(dt) + 3) % 7

\* datetime.MAXYEAR
MAXYEAR == 9999

\* dt + timedelta(days = n) for n >= 0: Ok(date), or OverflowError when the
\* date is after 9999-12-31
AddDays(dt, n) ==
    IF DayNumber(dt) + n > DayNumber([y |-> MAXYEAR, m |-> 12, d |-> 31])
    THEN Raise("OverflowError: date value out of range")
    ELSE Ok(DateOf(DayNumber(dt) + n))

\* zero-padded decimal of width w
RECURSIVE Pad(_, _)
Pad(s, w) == IF Len(s) >= w THEN s ELSE Pad(<<"0">> \o s, w)

\* dt.strftime("%Y-%m-%d"): the C library's %Y does not pad the year
Strftime(dt) ==
    StrInt(dt.y) \o <<"-">> \o Pad(StrInt(dt.m), 2) \o <<"-">> \o Pad(StrInt(dt.d), 2)

\* the regular expression datetime.strptime builds for "%Y-%m-%d":
\* (\d\d\d\d)-(1[0-2]|0[1-9]|[1-9])-(3[01]|[12]\d|0[1-9]|[1-9]| [1-9])
NonZero == Digit09 \ {"0"}
StrptimeRe ==
    Cat(<<Grp(1, D(4)), Set({"-"}),
          Grp(2, Alt(<<Cat(<<Set({"1"}), Set({"0","1","2"})>>),
                       Cat(<<Set({"0"}), Set(NonZero)>>), Set(NonZero)>>)),
          Set({"-"})>>)
StrptimeDayRe ==
    Alt(<<Cat(<<Set({"3"}), Set({"0","1"})>>), Cat(<<Set({"1","2"}), Class(Digit)>>),
          Cat(<<Set({"0"}), Set(NonZero)>>), Set(NonZero),
          Cat(<<Set({" "}), Set(NonZero)>>)>>)

\* datetime.strptime(s, "%Y-%m-%d"): [ok |-> TRUE, dt |-> date], or
\* [ok |-> FALSE] where it raises ValueError (no match of the whole string,
\* or a day the month does not have)
StrptimeDay(s, st, days) ==
    LET dt == [y |-> IntVal(Group(s, st, 1)), m |-> IntVal(Group(s, st, 2)),
               d |-> IntVal(SubSeq(s, st.pos, Len(s)))]
    IN IF days = <<>> \/ days[1].pos # Len(s) + 1 THEN [ok |-> FALSE]
       ELSE IF dt.y < 1 \/ dt.d > DaysInMonth(dt.y, dt.m) THEN [ok |-> FALSE]
       ELSE [ok |-> TRUE, dt |-> dt]

StrptimeRest(s, ways) ==
    IF ways = <<>> THEN [ok |-> FALSE]
    ELSE StrptimeDay(s, ways[1], M(StrptimeDayRe, s, FALSE, ways[1]))

Strptime(s) == StrptimeRest(s, MatchAt(StrptimeRe, s, FALSE, 1))

\* the weekday names parse_date tests, in the order of its elif chain
WeekdayNames == <<
    <<"m","o","n","d","a","y">>, <<"t","u","e","s","d","a","y">>, <<"w","e","d","n","e","s","d","a","y">>, <<"t","h","u","r","s","d","a","y">>, <<"f","r","i","d","a","y">>, <<"s","a","t","u","r","d","a","y">>, <<"s","u","n","d","a","y">> >>

\* DaysAhead without "or 7"
DaysAheadSameDay(t, weekday) == (t - weekday + 7) % 7

\* (t - weekday + 7) % 7 or 7
DaysAhead(t, weekday) ==
    LET n == (t - weekday + 7) % 7 IN IF n = 0 THEN 7 ELSE n

\* the "elif 'next' in date_text_lower" branch: days_ahead
NextDaysAhead(date_text_lower, weekday) ==
    IF \E t \in 1..7 : Contains(date_text_lower, WeekdayNames[t])
    THEN LET t == CHOOSE t \in 1..7 :
                    /\ Contains(date_text_lower, WeekdayNames[t])
                    /\ \A u \in 1..(t - 1) : ~Contains(date_text_lower, WeekdayNames[u])
         IN DaysAhead(t - 1, weekday)
    ELSE 7

\* date_parser.parse(date_text, fuzzy=True) inside try/except.  dateutil is a
\* library outside the repository, and it fills the fields the text does not
\* give from the clock; what it does on date_text is an input, parsed:
\* Ok(date) when the parser returns a date, Raise(e) when it raises.
FuzzyParse(date_text, parsed) == IF parsed.ok THEN Strftime(parsed.v) ELSE date_text

\* (current_date + timedelta(days = n)).strftime("%Y-%m-%d")
Shifted(r) ==
    IF r.ok THEN [ok |-> TRUE, value |-> Strftime(r.v)] ELSE [ok |-> FALSE, error |-> r.error]

\* parse_date: [ok |-> TRUE, value |-> str], or [ok |-> FALSE, error |-> e]
\* where strptime raises ValueError on current_date_str or the addition of
\* the days raises OverflowError
ParseDateFrom(date_text, date_text_lower, cur, parsed) ==
    IF ~cur.ok THEN [ok |-> FALSE, error |-> "ValueError: time data does not match format"]
    ELSE IF Contains(date_text_lower, <<"t","o","d","a","y">>)
    THEN [ok |-> TRUE, value |-> Strftime(cur.dt)]
    ELSE IF Contains(date_text_lower, <<"t","o","m","o","r","r","o","w">>)
    THEN Shifted(AddDays(cur.dt, 1))
    ELSE IF Contains(date_text_lower, <<"n","e","x","t">>)
    THEN Shifted(AddDays(cur.dt, NextDaysAhead(date_text_lower, Weekday(cur.dt))))
    ELSE [ok |-> TRUE, value |-> FuzzyParse(date_text, parsed)]

parse_date(date_text, current_date_str, parsed) ==
    ParseDateFrom(date_text, Lower(date_text), Strptime(current_date_str), parsed)

(***************************************************************************)
(* query_parser.py: parse_flight_query.  Its patterns are raw strings      *)
(* without backslashes: "s+" is one or more letters s, "d+" one or more    *)
(* letters d, "w+" one or more letters w.                                  *)
(***************************************************************************)
S1 == Plus(Set({"s"}))      \* s+
S0 == Star(Set({"s"}))      \* s*
D1 == Plus(Set({"d"}))      \* d+
W1 == Plus(Set({"w"}))      \* w+
ToFor == Alt(<<Lit(<<"t","o">>), Lit(<<"f","o","r">>)>>)    \* (?:to|for)
\* adults*  /  females*  /  males*
AdultS == Cat(<<Lit(<<"a","d","u","l","t">>), S0>>)
FemaleS == Cat(<<Lit(<<"f","e","m","a","l","e">>), S0>>)
MaleS == Cat(<<Lit(<<"m","a","l","e">>), S0>>)
\* d{lo,hi}
Dn(lo, hi) == Rep(Set({"d"}), lo, hi)

\* route_patterns of parse_flight_query
query_route_patterns == <<
    Cat(<<Alt(<<Lit(<<"f","r","o","m">>), Lit(<<"l","e","a","v","i","n","g">>)>>), S1, Grp(1, Plus(Set(az))), S1, ToFor, S1, Grp(2, Plus(Set(az)))>>),
    Cat(<<Grp(1, Plus(Set(az))), S1, ToFor, S1, Grp(2, Plus(Set(az)))>>) >>

\* nexts+w+|w+day
NextOrDay == <<Cat(<<Lit(<<"n","e","x","t">>), S1, W1>>), Cat(<<W1, Lit(<<"d","a","y">>)>>)>>

\* date_patterns of parse_flight_query
query_date_patterns == <<
    Cat(<<Lit(<<"o","n">>), S1,
          Grp(1, Alt(NextOrDay \o
                     <<Lit(<<"t","o","m","o","r","r","o","w">>), Lit(<<"t","o","d","a","y">>),
                       Cat(<<Dn(1, 2), DateSep, Dn(1, 2), DateSep, Dn(2, 4)>>)>>))>>),
    Grp(1, Alt(NextOrDay)) >>

male_patterns == <<
    Cat(<<Grp(1, D1), S0, Opt(AdultS), Alt(<<Lit(<<"m","a","l","e">>), Lit(<<"m","a","n">>), Lit(<<"m","e","n">>)>>)>>),
    Cat(<<Grp(1, D1), S0, Lit(<<"m","e","n">>)>>) >>

female_patterns == <<
    Cat(<<Grp(1, D1), S0, Opt(AdultS), Alt(<<Lit(<<"f","e","m","a","l","e">>), Lit(<<"w","o","m","a","n">>), Lit(<<"w","o","m","e","n">>)>>)>>),
    Cat(<<Grp(1, D1), S0, Lit(<<"w","o","m","e","n">>)>>) >>

minor_patterns == <<
    Cat(<<Grp(1, D1), S0, Opt(FemaleS), Lit(<<"m","i","n","o","r">>)>>),
    Cat(<<Grp(1, D1), S0, Opt(MaleS), Lit(<<"m","i","n","o","r">>)>>),
    Cat(<<Grp(1, D1), S0, Alt(<<Lit(<<"c","h","i","l","d">>), Lit(<<"c","h","i","l","d","r","e","n">>), Lit(<<"k","i","d">>)>>)>>) >>

\* "Extract origin and destination"
QueryRouteSet(result, match, query_lower) ==
    IF match.ok
    THEN Put(Put(result, "origin", normalize_city(Group(query_lower, match, 1))),
             "destination", normalize_city(Group(query_lower, match, 2)))
    ELSE result

QueryRoute(result, query_lower) ==
    QueryRouteSet(result, FirstMatch(query_route_patterns, 1, query_lower, FALSE), query_lower)

\* "Detect round trip"
QueryIntent(result, query_lower) ==
    IF \/ Contains(query_lower, <<"r","o","u","n","d"," ","t","r","i","p">>)
       \/ Contains(query_lower, <<"r","e","t","u","r","n">>)
       \/ Contains(query_lower, <<"r","o","u","n","d","-","t","r","i","p">>)
    THEN Put(result, "travel_intent", "round_trip")
    ELSE result

\* "Extract date": parse_date may raise
QueryDateSet(result, d) ==
    IF d.ok THEN Ok(Put(result, "travel_date", d.value)) ELSE Raise(d.error)

QueryDateMatch(result, match, query_lower, cur, parsed) ==
    IF ~match.ok THEN Ok(result)
    ELSE QueryDateSet(result, parse_date(Group(query_lower, match, 1), cur, parsed))

QueryDate(result, query_lower, cur, parsed) ==
    QueryDateMatch(result, FirstMatch(query_date_patterns, 1, query_lower, FALSE),
                   query_lower, cur, parsed)

\* "Extract time preference"
QueryTime(result, query_lower) ==
    IF Contains(query_lower, <<"m","o","r","n","i","n","g">>) THEN Put(result, "time_preference", "morning")
    ELSE IF Contains(query_lower, <<"a","f","t","e","r","n","o","o","n">>) THEN Put(result, "time_preference", "afternoon")
    ELSE IF Contains(query_lower, <<"e","v","e","n","i","n","g">>) THEN Put(result, "time_preference", "evening")
    ELSE IF Contains(query_lower, <<"n","i","g","h","t">>) THEN Put(result, "time_preference", "night")
    ELSE result

\* one "for pattern in patterns: ... passengers[key] = int(match.group(1)); break"
QueryCountMatch(passengers, key, match, query_lower) ==
    LET n == PyInt(Group(query_lower, match, 1))
    IN IF ~match.ok THEN Ok(passengers)
       ELSE IF n.ok THEN Ok(Put(passengers, key, n.v))
       ELSE n

QueryCount(passengers, key, patterns, query_lower) ==
    QueryCountMatch(passengers, key, FirstMatch(patterns, 1, query_lower, FALSE), query_lower)

\* the "Minors" loop
QueryMinorsMatch(passengers, match, query_lower) ==
    LET count == PyInt(Group(query_lower, match, 1))
    IN
    IF ~match.ok THEN Ok(passengers)
    ELSE IF ~count.ok THEN count
    ELSE IF Contains(query_lower, <<"f","e","m","a","l","e">>) /\ Contains(query_lower, <<"m","i","n","o","r">>)
    THEN Ok(Put(passengers, "minor_female", count.v))
    ELSE IF Contains(query_lower, <<"m","a","l","e">>) /\ Contains(query_lower, <<"m","i","n","o","r">>)
    THEN Ok(Put(passengers, "minor_male", count.v))
    ELSE Ok(Put(passengers, "minor", Get(passengers, "minor", 0) + count.v))

QueryMinors(passengers, query_lower) ==
    QueryMinorsMatch(passengers, FirstMatch(minor_patterns, 1, query_lower, FALSE), query_lower)

\* "Calculate total" and the one-adult-male default
\* QueryTotal without the one-adult-male default
QueryTotalNoDefault(passengers) ==
    Put(passengers, "total", SumOver(passengers, DOMAIN passengers \ {"total"}))

QueryTotal(passengers) ==
    LET total == SumOver(passengers, DOMAIN passengers \ {"total"})
    IN IF total = 0
       THEN Put(Put(passengers, "adult_male", 1), "total", 1)
       ELSE Put(passengers, "total", total)

\* "Extract passenger counts" up to the final passengers dict
QueryAfterMinors(p3) == IF ~p3.ok THEN p3 ELSE Ok(QueryTotal(p3.v))

QueryAfterFemale(p2, query_lower) ==
    IF ~p2.ok THEN p2 ELSE QueryAfterMinors(QueryMinors(p2.v, query_lower))

QueryAfterMale(p1, query_lower) ==
    IF ~p1.ok THEN p1
    ELSE QueryAfterFemale(QueryCount(p1.v, "adult_female", female_patterns, query_lower),
                          query_lower)

QueryPassengers(query_lower) ==
    QueryAfterMale(QueryCount(EmptyDict, "adult_male", male_patterns, query_lower),
                   query_lower)

\* parse_flight_query(query, current_date): Ok(result) or the exception raised
QueryResult(result, p) ==
    IF ~p.ok THEN p ELSE Ok(Put(result, "passengers", p.v))

QueryAfterDate(r2, query_lower) ==
    IF ~r2.ok THEN r2
    ELSE QueryResult(QueryTime(r2.v, query_lower), QueryPassengers(query_lower))

QueryParse(query_lower, cur, parsed) ==
    QueryAfterDate(
        QueryDate(
            QueryIntent(
                QueryRoute(("travel_intent" :> "one_way") @@ ("passengers" :> ("total" :> 0)),
                           query_lower),
                query_lower),
            query_lower, cur, parsed),
        query_lower)

\* "if current_date is None: current_date = datetime.now().strftime(...)":
\* current_date_ is None or [str |-> chars], now is the date the clock gives
QueryCurrentDate(current_date_, now) ==
    IF current_date_ = NoneV THEN now ELSE current_date_.str

\* now: what datetime.now().strftime("%Y-%m-%d") returns, read only when no
\* date is given; parsed: what dateutil does on the date text, see FuzzyParse
parse_flight_query(query, current_date_, now, parsed) ==
    QueryParse(Lower(query), QueryCurrentDate(current_date_, now), parsed)

(***************************************************************************)
(* frame_processor.py: merge_entities                                      *)
(***************************************************************************)
\* the dict keys of the program, as text
KeyName == [
    name |-> <<"n","a","m","e">>,
    date |-> <<"d","a","t","e">>,
    amount |-> <<"a","m","o","u","n","t">>,
    booking_id |-> <<"b","o","o","k","i","n","g","_","i","d">>,
    origin |-> <<"o","r","i","g","i","n">>,
    destination |-> <<"d","e","s","t","i","n","a","t","i","o","n">>,
    route |-> <<"r","o","u","t","e">>,
    passengers |-> <<"p","a","s","s","e","n","g","e","r","s">>,
    adult_male |-> <<"a","d","u","l","t","_","m","a","l","e">>,
    adult_female |-> <<"a","d","u","l","t","_","f","e","m","a","l","e">>,
    minor |-> <<"m","i","n","o","r">>,
    minor_male |-> <<"m","i","n","o","r","_","m","a","l","e">>,
    minor_female |-> <<"m","i","n","o","r","_","f","e","m","a","l","e">>,
    total |-> <<"t","o","t","a","l">> ]

\* len(str(v)): a str is its own str(); a dict of ints prints as
\* {'key': 1, 'key2': 2}
PyStrLen(v) ==
    IF IsStr(v) THEN Len(v.str)
    ELSE LET d == v.dict
             item == [k \in DOMAIN d |-> 1 + Len(KeyName[k]) + 1 + 2 + Len(StrInt(d[k]))]
         IN IF DOMAIN d = {} THEN 2
            ELSE 2 + SumOver(item, DOMAIN d) + 2 * (Cardinality(DOMAIN d) - 1)

\* MergeValue with the comparison turned round
MergeValueShorter(cur, value) ==
    IF IsStr(value) /\ Len(value.str) < PyStrLen(cur) THEN value ELSE cur

\* MergeValue that adds up the counts of two records
MergeValueAdd(cur, value) ==
    IF ~IsStr(cur) /\ ~IsStr(value)
    THEN DictV([k \in DOMAIN cur.dict \cup DOMAIN value.dict |->
                  Get(cur.dict, k, 0) + Get(value.dict, k, 0)])
    ELSE IF IsStr(value) /\ Len(value.str) > PyStrLen(cur) THEN value ELSE cur

\* MergeValue without the isinstance(value, str) test
MergeValueAnyLonger(cur, value) ==
    IF PyStrLen(value) > PyStrLen(cur) THEN value ELSE cur

\* the value kept for a key that is already merged:
\* "elif isinstance(value, str) and len(value) > len(str(merged[key]))"
MergeValue(cur, value) ==
    IF IsStr(value) /\ Len(value.str) > PyStrLen(cur) THEN value ELSE cur

\* one round of "for frame_data in frame_results"
MergeFrame(m, frame_data) ==
    LET entities == Get(frame_data, "entities", EmptyDict)
    IN [key \in DOMAIN m \cup DOMAIN entities |->
          IF key \notin DOMAIN entities THEN m[key]
          ELSE IF key \notin DOMAIN m THEN entities[key]
          ELSE MergeValue(m[key], entities[key])]

RECURSIVE MergeFrom(_, _, _)
MergeFrom(m, frame_results_, k) ==
    IF k > Len(frame_results_) THEN m
    ELSE MergeFrom(MergeFrame(m, frame_results_[k]), frame_results_, k + 1)

merge_entities(frame_results_) == MergeFrom(EmptyDict, frame_results_, 1)

(***************************************************************************)
(* frame_processor.py: process_dynamic_image, the body of its loop.  A     *)
(* sampled frame is [outcome, text]: the text the OCR reads from it, and   *)
(* what happens in the try block: "ok", "preprocess_raises"                *)
(* (preprocess_image raises, e.g. cv2.imread returns None), or             *)
(* "cleanup_raises" (os.unlink raises after the result was appended).      *)
(* extract_text_from_image catches its own exceptions and returns text "". *)
(***************************************************************************)
FrameOk(i, txt, entities) ==
    ("frame" :> i) @@ ("text" :> txt) @@ ("entities" :> entities)
FrameError(i, e) == ("frame" :> i) @@ ("error" :> e)

\* the try block from "entities = extract_entities(ocr_result['text'])" on;
\* r is what extract_entities returned or raised
FrameTry(i, frame, r) ==
    IF ~r.ok THEN <<FrameError(i, r.error)>>
    ELSE IF frame.outcome = "cleanup_raises"
    THEN <<FrameOk(i, frame.text, r.v), FrameError(i, "OSError")>>
    ELSE <<FrameOk(i, frame.text, r.v)>>

\* ProcessFrameEntries whose except clause records nothing
ProcessFrameEntriesSkip(i, frame) ==
    IF frame.outcome = "preprocess_raises" THEN <<>>
    ELSE FrameTry(i, frame, extract_entities(frame.text))

\* the entries the loop body appends to frame_results for frame i
ProcessFrameEntries(i, frame) ==
    IF frame.outcome = "preprocess_raises" THEN <<FrameError(i, "Failed to load image")>>
    ELSE FrameTry(i, frame, extract_entities(frame.text))

\* "for i, frame_path in enumerate(frame_paths)" from frame i on
RECURSIVE FrameResultsFrom(_, _)
FrameResultsFrom(frames_, i) ==
    IF i >= Len(frames_) THEN <<>>
    ELSE ProcessFrameEntries(i, frames_[i + 1]) \o FrameResultsFrom(frames_, i + 1)

\* the dict process_dynamic_image returns
DynamicResult(frames_, frame_results_) ==
    [frames_processed |-> Len(frames_), frame_results |-> frame_results_,
     merged_entities |-> merge_entities(frame_results_)]

process_dynamic_image(frames_) == DynamicResult(frames_, FrameResultsFrom(frames_, 0))

(***************************************************************************)
(* main.py: ask_endpoint.  An f-string is [fmt, args]: its text with {}    *)
(* for each substituted value, and the values.                             *)
(***************************************************************************)
IntV(n) == [int |-> n]
KeyV(k) == [key |-> k]
F(fmt, args) == [fmt |-> fmt, args |-> args]
\* "not answer": None is falsy, an f-string with literal text is truthy
Not(answer) == answer = NoneV

In(w, q) == Contains(q, w)

\* the condition of the "Amount / Price / Total money" branch:
\* 'amount' in q or 'total' in q and any(k in q for k in ['price','amount','fare'])
AmountRule(q) ==
    \/ In(<<"a","m","o","u","n","t">>, q)
    \/ /\ In(<<"t","o","t","a","l">>, q)
       /\ \/ In(<<"p","r","i","c","e">>, q)
          \/ In(<<"a","m","o","u","n","t">>, q)
          \/ In(<<"f","a","r","e">>, q)
NameRule(q) == In(<<"n","a","m","e">>, q)
DateRule(q) == In(<<"d","a","t","e">>, q) \/ In(<<"w","h","e","n">>, q)
IdRule(q) == In(<<"p","n","r">>, q) \/ In(<<"b","o","o","k","i","n","g">>, q) \/ In(<<"i","d">>, q)

\* "'pnr' in key.lower() or 'id' in key.lower() or 'booking' in key.lower()"
IdKey(key) ==
    LET k == Lower(KeyName[key])
    IN In(<<"p","n","r">>, k) \/ In(<<"i","d">>, k) \/ In(<<"b","o","o","k","i","n","g">>, k)

\* the order in which extract_entities inserts its keys, which is the order
\* "for key in entities.keys()" visits them
EntityKeys == <<"name", "date", "amount", "booking_id", "origin", "destination",
                "route", "passengers">>

\* the first key of entities, in that order, from position k on, that IdKey accepts
RECURSIVE FirstIdKey(_, _)
FirstIdKey(entities, k) ==
    IF k > Len(EntityKeys) THEN "<none>"
    ELSE IF EntityKeys[k] \in DOMAIN entities /\ IdKey(EntityKeys[k]) THEN EntityKeys[k]
    ELSE FirstIdKey(entities, k + 1)

\* AskFields as a chain of separate ifs: a rule whose field is absent lets
\* the next rule try
AskFieldsFallThrough(entities, q) ==
    IF AmountRule(q) /\ Has(entities, "amount")
    THEN <<F("The amount is {}.", <<entities["amount"]>>),
           F("Amount found: {}", <<entities["amount"]>>)>>
    ELSE IF NameRule(q) /\ Has(entities, "name")
    THEN <<F("The name is {}.", <<entities["name"]>>),
           F("Name found: {}", <<entities["name"]>>)>>
    ELSE IF DateRule(q) /\ Has(entities, "date")
    THEN <<F("The date is {}.", <<entities["date"]>>),
           F("Date found: {}", <<entities["date"]>>)>>
    ELSE IF IdRule(q) /\ FirstIdKey(entities, 1) # "<none>"
    THEN <<F("The {} is {}.", <<KeyV(FirstIdKey(entities, 1)), entities[FirstIdKey(entities, 1)]>>),
           F("{}: {}", <<KeyV(FirstIdKey(entities, 1)), entities[FirstIdKey(entities, 1)]>>)>>
    ELSE <<NoneV, NoneV>>

\* rule groups 1-4, one if/elif chain: <<answer, source>>
AskFields(entities, q) ==
    IF AmountRule(q)
    THEN IF Has(entities, "amount")
         THEN <<F("The amount is {}.", <<entities["amount"]>>),
                F("Amount found: {}", <<entities["amount"]>>)>>
         ELSE <<NoneV, NoneV>>
    ELSE IF NameRule(q)
    THEN IF Has(entities, "name")
         THEN <<F("The name is {}.", <<entities["name"]>>),
                F("Name found: {}", <<entities["name"]>>)>>
         ELSE <<NoneV, NoneV>>
    ELSE IF DateRule(q)
    THEN IF Has(entities, "date")
         THEN <<F("The date is {}.", <<entities["date"]>>),
                F("Date found: {}", <<entities["date"]>>)>>
         ELSE <<NoneV, NoneV>>
    ELSE IF IdRule(q)
    THEN LET key == FirstIdKey(entities, 1)
         IN IF key # "<none>"
            THEN <<F("The {} is {}.", <<KeyV(key), entities[key]>>),
                   F("{}: {}", <<KeyV(key), entities[key]>>)>>
            ELSE <<NoneV, NoneV>>
    ELSE <<NoneV, NoneV>>

\* "'adult' in question_lower and 'male' in question_lower"
AdultMaleRule(q) == In(<<"a","d","u","l","t">>, q) /\ In(<<"m","a","l","e">>, q)
\* "'adult' in question_lower and 'female' in question_lower"
AdultFemaleRule(q) == In(<<"a","d","u","l","t">>, q) /\ In(<<"f","e","m","a","l","e">>, q)
AdultsRule(q) == In(<<"h","o","w"," ","m","a","n","y"," ","a","d","u","l","t","s">>, q) \/ (In(<<"h","o","w"," ","m","a","n","y">>, q) /\ In(<<"a","d","u","l","t">>, q))
MinorRule(q) == In(<<"m","i","n","o","r">>, q) \/ In(<<"c","h","i","l","d">>, q) \/ In(<<"c","h","i","l","d","r","e","n">>, q) \/ In(<<"k","i","d">>, q)
\* 'total' in q and 'passeng' in q or 'how many passengers' in q or ('total' in q and 'pax' in q)
TotalRule(q) ==
    \/ In(<<"t","o","t","a","l">>, q) /\ In(<<"p","a","s","s","e","n","g">>, q)
    \/ In(<<"h","o","w"," ","m","a","n","y"," ","p","a","s","s","e","n","g","e","r","s">>, q)
    \/ In(<<"t","o","t","a","l">>, q) /\ In(<<"p","a","x">>, q)

\* the "minors specific" branch
AskMinors(passengers, q) ==
    IF In(<<"m","a","l","e">>, q) /\ In(<<"m","i","n","o","r">>, q) /\ Has(passengers, "minor_male")
    THEN <<F("There are {} male minors.", <<IntV(passengers["minor_male"])>>),
           F("minor_male: {}", <<IntV(passengers["minor_male"])>>)>>
    ELSE IF In(<<"f","e","m","a","l","e">>, q) /\ In(<<"m","i","n","o","r">>, q) /\ Has(passengers, "minor_female")
    THEN <<F("There are {} female minors.", <<IntV(passengers["minor_female"])>>),
           F("minor_female: {}", <<IntV(passengers["minor_female"])>>)>>
    ELSE LET minors_total == Get(passengers, "minor", 0) + Get(passengers, "minor_male", 0)
                             + Get(passengers, "minor_female", 0)
         IN IF minors_total > 0
            THEN <<F("There are {} minors.", <<IntV(minors_total)>>),
                   F("minors_total: {}", <<IntV(minors_total)>>)>>
            ELSE <<NoneV, NoneV>>

\* the "total passengers" branch
AskTotal(passengers) ==
    IF Has(passengers, "total")
    THEN <<F("Total passengers are {}.", <<IntV(passengers["total"])>>),
           F("total: {}", <<IntV(passengers["total"])>>)>>
    ELSE LET total_sum == SumOver(passengers, DOMAIN passengers \ {"total"})
         IN IF total_sum > 0
            THEN <<F("Total passengers (inferred) are {}.", <<IntV(total_sum)>>),
                   F("inferred_total: {}", <<IntV(total_sum)>>)>>
            ELSE <<NoneV, NoneV>>

\* the passenger-specific if/elif chain, entered when groups 1-4 gave no answer
AskPassengers(entities, q) ==
    LET p == Get(entities, "passengers", DictV(EmptyDict))
        passengers == IF IsStr(p) THEN EmptyDict ELSE p.dict
    IN IF AdultMaleRule(q)
       THEN IF Has(passengers, "adult_male")
            THEN <<F("There are {} adult males.", <<IntV(passengers["adult_male"])>>),
                   F("adult_male: {}", <<IntV(passengers["adult_male"])>>)>>
            ELSE <<NoneV, NoneV>>
       ELSE IF AdultFemaleRule(q)
       THEN IF Has(passengers, "adult_female")
            THEN <<F("There are {} adult females.", <<IntV(passengers["adult_female"])>>),
                   F("adult_female: {}", <<IntV(passengers["adult_female"])>>)>>
            ELSE <<NoneV, NoneV>>
       ELSE IF AdultsRule(q)
       THEN LET male == Get(passengers, "adult_male", 0)
                female == Get(passengers, "adult_female", 0)
            IN IF male + female > 0
               THEN <<F("There are {} adults ({} male, {} female).",
                        <<IntV(male + female), IntV(male), IntV(female)>>),
                      F("adult_male: {}, adult_female: {}", <<IntV(male), IntV(female)>>)>>
               ELSE <<NoneV, NoneV>>
       ELSE IF MinorRule(q) THEN AskMinors(passengers, q)
       ELSE IF TotalRule(q) THEN AskTotal(passengers)
       ELSE <<NoneV, NoneV>>

\* "Final fallback: return all entities or no data"
AskFallback(entities) ==
    IF entities # EmptyDict
    THEN <<F("Found information: {}", <<DictV(entities)>>), F("All extracted entities", <<>>)>>
    ELSE <<F("No relevant information found for this question.", <<>>), F("No data", <<>>)>>

\* "entities = data.get('entities', {}) or data.get('merged_entities', {})"
AskEntities(data) ==
    IF Get(data, "entities", EmptyDict) # EmptyDict THEN data["entities"]
    ELSE Get(data, "merged_entities", EmptyDict)

\* Resolve with the passenger rules tried before rule groups 1-4
ResolvePassengersFirst(entities, question_lower) ==
    IF ~Not(AskPassengers(entities, question_lower)[1])
    THEN AskPassengers(entities, question_lower)
    ELSE IF ~Not(AskFields(entities, question_lower)[1])
    THEN AskFields(entities, question_lower)
    ELSE AskFallback(entities)

\* the answer and source ask_endpoint computes from the stored entities
Resolve(entities, question_lower) ==
    LET a1 == AskFields(entities, question_lower)
        a2 == IF Not(a1[1]) THEN AskPassengers(entities, question_lower) ELSE a1
    IN IF Not(a2[1]) THEN AskFallback(entities) ELSE a2

\* ask_endpoint(request): the response, or HTTP 404
ask_endpoint(store, file_id, q) ==
    IF file_id \notin DOMAIN store
    THEN [status |-> 404, detail |-> "File ID not found"]
    ELSE LET a == Resolve(AskEntities(store[file_id]), Lower(q))
         IN [status |-> 200, file_id |-> file_id, question |-> q,
             answer |-> a[1], source |-> a[2]]

(***************************************************************************)
(* Inputs                                                                  *)
(***************************************************************************)
MaxWords == 2       \* fragments in an OCR text or a query
MaxFrames == 2      \* sampled frames of a dynamic image
MaxResults == 2     \* frame results given to merge_entities directly

\* the texts made of at most n fragments joined by single spaces
RECURSIVE Phrases(_, _)
Phrases(words, n) ==
    IF n = 0 THEN {<<>>}
    ELSE LET shorter == Phrases(words, n - 1)
         IN shorter \cup {IF p = <<>> THEN w ELSE p \o <<" ">> \o w :
                            p \in shorter, w \in words}

\* fragments of the text OCR reads from a booking document ("U+0664" is the
\* Arabic-Indic digit four, a decimal digit to \d and to int())
OcrWords == {
    <<"D","e","l","h","i"," ","t","o"," ","M","u","m","b","a","i">>,
    <<"2"," ","m","e","n">>,
    <<"3"," ","w","o","m","e","n">>,
    <<"1"," ","f","e","m","a","l","e"," ","m","i","n","o","r">>,
    <<"2"," ","m","a","l","e"," ","m","i","n","o","r">>,
    <<"U+0664"," ","k","i","d","s">>,
    <<"N","a","m","e",":"," ","J","o","h","n"," ","S","m","i","t","h">>,
    <<"T","o","t","a","l",":"," ","$","5","0","0">> }
OcrTexts == Phrases(OcrWords, MaxWords)

\* fragments of a flight query ("U+0968" is the Devanagari digit two)
QueryWords == {
    <<"D","e","l","h","i"," ","t","o"," ","M","u","m","b","a","i">>,
    <<"t","o","m","o","r","r","o","w">>,
    <<"U+0968"," ","m","e","n">>,
    <<"2"," ","g","r","a","n","d","c","h","i","l","d","r","e","n">>,
    <<"a","s","b","e","s","t","o","s","i","s">>,
    <<"o","n","s","t","o","d","a","y">>,
    <<"w","d","a","y">>,
    <<"r","e","t","u","r","n">> }
Queries == Phrases(QueryWords, MaxWords)

\* what dateutil does on a date text: it raises, or it returns a date
FuzzyOutcomes == { Raise("ParserError"), Ok([y |-> 2024, m |-> 3, d |-> 5]) }

\* reference dates: current_date is any string, or None
Dates == { <<"2","0","2","4","-","0","3","-","0","4">>, <<"0","4","/","0","3","/","2","0","2","4">> }
OptionalDates == {NoneV} \cup {StrV(d) : d \in Dates}

\* what datetime.now().strftime("%Y-%m-%d") returns
Clock == { <<"2","0","2","4","-","0","3","-","0","5">>, <<"2","0","2","4","-","1","2","-","3","1">> }

Questions == {
    <<"w","h","a","t"," ","i","s"," ","t","h","e"," ","t","o","t","a","l"," ","a","m","o","u","n","t">>,
    <<"T","o","t","a","l"," ","f","a","r","e"," ","f","o","r"," ","a","l","l"," ","p","a","s","s","e","n","g","e","r","s">>,
    <<"h","o","w"," ","m","a","n","y"," ","a","d","u","l","t"," ","f","e","m","a","l","e","s">>,
    <<"h","o","w"," ","m","a","n","y"," ","a","d","u","l","t"," ","m","a","l","e","s">>,
    <<"a","m","o","u","n","t"," ","a","n","d"," ","n","a","m","e">>,
    <<"p","a","s","s","e","n","g","e","r"," ","n","a","m","e">>,
    <<"h","o","w"," ","m","a","n","y"," ","p","a","s","s","e","n","g","e","r","s">>,
    <<"h","o","w"," ","m","a","n","y"," ","k","i","d","s">> }

(***************************************************************************)
(* main.py: the endpoints.  The handlers are coroutines of one event loop: *)
(* a handler runs until it returns or awaits.  ask_endpoint and            *)
(* parse_flight_query_endpoint never await; extract_endpoint awaits once,  *)
(* at "content = await file.read()", and while it is suspended there any   *)
(* other request may be received, handled or resumed.  Requests come in    *)
(* any order and any number of times; extracted_data lives as long as the  *)
(* process.  After a handler returned or raised, pc names its exit, text,  *)
(* frames, question and current_date hold what its request gave, and       *)
(* response what the client receives.                                      *)
(***************************************************************************)
MaxUploads == 2     \* uploads stored or in flight

NoText == <<>>

\* file.filename.lower().split('.')[-1]
Ext(filename_lower) ==
    SubSeq(filename_lower,
           Len(filename_lower) + 1
             - Cardinality({n \in 1..Len(filename_lower) :
                   \A k \in (Len(filename_lower) - n + 1)..Len(filename_lower) :
                       filename_lower[k] # "."}),
           Len(filename_lower))

\* ext in ['gif', 'mp4', 'avi']
is_dynamic(filename) ==
    Ext(Lower(filename)) \in {<<"g","i","f">>, <<"m","p","4">>, <<"a","v","i">>}

\* the texts the OCR reads from an uploaded image
UploadTexts == {
    NoText,
    <<"3"," ","w","o","m","e","n">>,
    <<"N","a","m","e",":"," ","J","o","h","n"," ","S","m","i","t","h">>,
    <<"T","o","t","a","l",":"," ","$","5","0","0"," ","2"," ","m","e","n">> }

\* the frames sampled from an uploaded clip
Clips == {
    << [outcome |-> "preprocess_raises", text |-> NoText] >>,
    << [outcome |-> "ok", text |-> <<"N","a","m","e",":"," ","J","o","h","n"," ","S","m","i","t","h">>],
       [outcome |-> "cleanup_raises", text |-> <<"T","o","t","a","l",":"," ","$","5","0","0"," ","2"," ","m","e","n">>] >> }

\* an upload: its file name, what its file holds (the text of an image, the
\* frames of a clip), and what happens while it is handled: "ok",
\* "preprocess_raises" (preprocess_image cannot load the image),
\* "extract_frames_raises" (extract_frames raises, e.g. on a frame rate
\* below 1.5 its frame_interval is 0), or "cleanup_raises" (os.unlink raises
\* after the result was stored)
Uploads ==
    { [filename |-> <<"t","i","c","k","e","t",".","P","N","G">>, outcome |-> o,
       text |-> t, frames |-> <<>>] :
          o \in {"ok", "cleanup_raises"}, t \in UploadTexts }
    \cup { [filename |-> <<"t","i","c","k","e","t",".","P","N","G">>,
            outcome |-> "preprocess_raises", text |-> NoText, frames |-> <<>>] }
    \cup { [filename |-> <<"t","r","i","p",".","v","2",".","G","I","F">>, outcome |-> o,
            text |-> NoText, frames |-> c] :
               o \in {"ok", "cleanup_raises"}, c \in Clips }
    \cup { [filename |-> <<"t","r","i","p",".","m","p","4">>,
            outcome |-> "extract_frames_raises", text |-> NoText, frames |-> <<>>] }

\* the requests to /parse-flight-query: request.current_date is optional
ServiceQueries == {
    <<"D","e","l","h","i"," ","t","o"," ","M","u","m","b","a","i"," ","t","o","m","o","r","r","o","w">>,
    <<"2"," ","g","r","a","n","d","c","h","i","l","d","r","e","n">>,
    <<"o","n","s","t","o","d","a","y">> }
RequestDates == OptionalDates \cup {StrV(NoText)}

\* the file of an upload: what a suspended request holds
FileOf(upload) ==
    [filename |-> upload.filename, text |-> upload.text, frames |-> upload.frames]
Files == {FileOf(upload) : upload \in Uploads}

\* file ids: uuid4 values are fresh and nothing reads one before its record
\* is stored, so the ids are numbered in the order they are stored; FileIds
\* are the ids /ask is given, one of them never issued
FileIds == 1..(MaxUploads + 1)
NextFileId(store) == Cardinality(DOMAIN store) + 1

Idle ==
    /\ pc = "idle"
    /\ text = NoText
    /\ current_date = NoneV
    /\ extracted_data = EmptyDict
    /\ frames = <<>>
    /\ fi = 0
    /\ frame_results = <<>>
    /\ merged = EmptyDict
    /\ mi = 1
    /\ question = NoText
    /\ in_flight = EmptyBag
    /\ response = NoneV

Init == Idle

\* "except Exception as e: raise HTTPException(status_code=500, detail=str(e))"
ServerError(handler, e) == [status |-> 500, handler |-> handler, detail |-> e]

\* the result extract_endpoint builds for a static image, without the keys
\* no handler reads back (filename, timestamp, preprocessing)
StaticResult(t, entities) ==
    [type |-> "static", ocr |-> [text |-> t], entities |-> entities]

ExtractStatic(t, r) == IF r.ok THEN Ok(StaticResult(t, r.v)) ELSE r

\* extract_endpoint from "result = {...}" to the last result.update: Ok(the
\* result without its file_id), or the exception raised
ExtractResult(upload) ==
    IF is_dynamic(upload.filename)
    THEN IF upload.outcome = "extract_frames_raises" THEN Raise("ZeroDivisionError")
         ELSE Ok([type |-> "dynamic"] @@ process_dynamic_image(upload.frames))
    ELSE IF upload.outcome = "preprocess_raises" THEN Raise("Failed to load image")
         ELSE ExtractStatic(upload.text, extract_entities(upload.text))

\* ExtractResult of every upload, computed once
UploadResults == [upload \in Uploads |-> ExtractResult(upload)]

\* extract_endpoint from "extracted_data[file_id] = result" on: the result is
\* stored before the cleanup, so a failing cleanup answers 500 with the
\* record in the store; an exception before leaves the store as it was
ExtractDone(file_id, upload, r) ==
    IF r.ok
    THEN /\ extracted_data' = (file_id :> ([file_id |-> file_id] @@ r.v)) @@ extracted_data
         /\ response' = IF upload.outcome = "cleanup_raises"
                        THEN ServerError("extract", "OSError")
                        ELSE [status |-> 200, handler |-> "extract",
                              body |-> [file_id |-> file_id] @@ r.v]
         /\ pc' = "stored"
    ELSE /\ extracted_data' = extracted_data
         /\ response' = ServerError("extract", r.error)
         /\ pc' = "failed"

\* extract_endpoint up to "content = await file.read()": the request is
\* suspended, no response yet
Receive(file) ==
    /\ Cardinality(DOMAIN extracted_data) + BagCardinality(in_flight) < MaxUploads
    /\ in_flight' = in_flight (+) SetToBag({file})
    /\ UNCHANGED <<pc, text, current_date, extracted_data, frames, fi, frame_results,
                   merged, mi, question, response>>

\* extract_endpoint from the await on, for a suspended request: no await
\* follows, so the rest of the handler is one step
Extract(upload) ==
    /\ BagIn(FileOf(upload), in_flight)
    /\ in_flight' = in_flight (-) SetToBag({FileOf(upload)})
    /\ ExtractDone(NextFileId(extracted_data), upload, UploadResults[upload])
    /\ text' = upload.text
    /\ frames' = upload.frames
    /\ question' = NoText
    /\ current_date' = NoneV
    /\ UNCHANGED <<fi, frame_results, merged, mi>>

\* ask_endpoint
Ask(file_id, q) ==
    /\ question' = q
    /\ response' = [handler |-> "ask"] @@ ask_endpoint(extracted_data, file_id, q)
    /\ pc' = "answered"
    /\ text' = NoText
    /\ frames' = <<>>
    /\ current_date' = NoneV
    /\ UNCHANGED <<in_flight, extracted_data, fi, frame_results, merged, mi>>

\* "current_date = request.current_date or datetime.now().strftime(...)":
\* None and '' are false
RequestDate(d, now) ==
    IF d = NoneV THEN StrV(now) ELSE IF d.str = NoText THEN StrV(now) ELSE d

\* parse_flight_query_endpoint: the result, or HTTP 500 with the exception
QueryResponse(r) ==
    IF r.ok THEN [status |-> 200, handler |-> "query", body |-> r.v]
    ELSE ServerError("query", r.error)

parse_flight_query_endpoint(q, d, now, parsed) ==
    QueryResponse(parse_flight_query(q, RequestDate(d, now), now, parsed))

\* parse_flight_query_endpoint on every request, computed once
QueryResponses ==
    [q \in ServiceQueries, d \in RequestDates, now \in Clock, parsed \in FuzzyOutcomes |->
        parse_flight_query_endpoint(q, d, now, parsed)]

ParseFlightQuery(q, d, now, parsed) ==
    /\ text' = q
    /\ current_date' = d
    /\ response' = QueryResponses[q, d, now, parsed]
    /\ question' = NoText
    /\ frames' = <<>>
    /\ pc' = "parsed"
    /\ UNCHANGED <<in_flight, extracted_data, fi, frame_results, merged, mi>>

Next ==
    \/ \E file \in Files : Receive(file)
    \/ \E upload \in Uploads : Extract(upload)
    \/ \E f \in FileIds, q \in Questions : Ask(f, q)
    \/ \E q \in ServiceQueries, d \in RequestDates, now \in Clock, parsed \in FuzzyOutcomes :
          ParseFlightQuery(q, d, now, parsed)

Spec == Init /\ [][Next]_vars

(***************************************************************************)
(* frame_processor.py: merge_entities called on a list of frame results,   *)
(* one round of its loop per step.                                         *)
(***************************************************************************)
\* values a frame reports, as extract_entities produces them: names of
\* different and of equal length (str), and passenger records (dict) whose
\* str() is 29, 31 and 41 characters long
Names == { <<"J","o">>, <<"A","l">>, <<"J","o","h","n"," ","S","m","i","t","h">> }
OneAdultMale == ("adult_male" :> 1) @@ ("total" :> 1)
TwoAdultFemale == ("adult_female" :> 2) @@ ("total" :> 2)
TwoMenFourKids == ("adult_male" :> 2) @@ ("minor" :> 4) @@ ("total" :> 6)
PassengerValues == { DictV(OneAdultMale), DictV(TwoAdultFemale), DictV(TwoMenFourKids) }

\* the entities dicts over the keys name and passengers
MergeEntities ==
    { n @@ p : n \in {EmptyDict} \cup {("name" :> StrV(x)) : x \in Names},
               p \in {EmptyDict} \cup {("passengers" :> v) : v \in PassengerValues} }

\* the entities extract_entities returns for frames that show a route
RouteTexts == {
    <<"G","o","a"," ","t","o"," ","P","u","n","e">>, <<"D","e","l","h","i"," ","t","o"," ","G","o","a">>, <<"D","e","l","h","i"," ","t","o"," ","M","u","m","b","a","i">>,
    <<"N","a","m","e",":"," ","J","o","h","n"," ","S","m","i","t","h"," ","2"," ","m","e","n"," ","G","o","a"," ","t","o"," ","P","u","n","e">> }
RouteEntities == { extract_entities(t).v : t \in RouteTexts }

\* frame results: with entities, or with an error only
MergeResults ==
    { ("entities" :> e) : e \in MergeEntities \cup RouteEntities } \cup { ("error" :> "OSError") }

RECURSIVE SeqsUpTo(_, _)
SeqsUpTo(S, n) ==
    IF n = 0 THEN {<<>>}
    ELSE SeqsUpTo(S, n - 1) \cup {Append(q, x) : q \in {r \in SeqsUpTo(S, n - 1) : Len(r) = n - 1}, x \in S}

InitMerge ==
    /\ pc = "merge"
    /\ frame_results \in SeqsUpTo(MergeResults, MaxResults)
    /\ merged = EmptyDict
    /\ mi = 1
    /\ text = NoText
    /\ current_date = NoText
    /\ extracted_data = EmptyDict
    /\ frames = <<>>
    /\ fi = 0
    /\ question = NoText
    /\ in_flight = EmptyBag
    /\ response = NoneV

\* one round of "for frame_data in frame_results"
MergeStep ==
    /\ pc = "merge"
    /\ mi <= Len(frame_results)
    /\ merged' = MergeFrame(merged, frame_results[mi])
    /\ mi' = mi + 1
    /\ UNCHANGED <<in_flight, pc, text, current_date, extracted_data, frames, fi, frame_results,
                   question, response>>

\* "return merged"
MergeReturn ==
    /\ pc = "merge"
    /\ mi > Len(frame_results)
    /\ response' = merged
    /\ pc' = "done"
    /\ UNCHANGED <<in_flight, text, current_date, extracted_data, frames, fi, frame_results,
                   merged, mi, question>>

NextMerge == MergeStep \/ MergeReturn

SpecMerge == InitMerge /\ [][NextMerge]_vars

(***************************************************************************)
(* frame_processor.py: process_dynamic_image, one frame per step, then the *)
(* merge, then the return.                                                 *)
(***************************************************************************)
\* the texts the OCR reads from a frame
FrameTexts == {
    <<>>,
    <<"N","a","m","e",":"," ","J","o","h","n"," ","S","m","i","t","h">>,
    <<"N","a","m","e",":"," ","J","o"," ","L","i"," ","2"," ","m","e","n">> }

\* a sampled frame: what its try block does, and the text read from it
Frames ==
    { [outcome |-> "preprocess_raises", text |-> NoText] }
    \cup { [outcome |-> o, text |-> t] : o \in {"ok", "cleanup_raises"}, t \in FrameTexts }

InitDynamic ==
    /\ frames \in SeqsUpTo(Frames, MaxFrames)
    /\ pc = IF frames = <<>> THEN "merge" ELSE "frames"
    /\ fi = 0
    /\ frame_results = <<>>
    /\ merged = EmptyDict
    /\ mi = 1
    /\ text = NoText
    /\ current_date = NoText
    /\ extracted_data = EmptyDict
    /\ question = NoText
    /\ in_flight = EmptyBag
    /\ response = NoneV

\* one round of "for i, frame_path in enumerate(frame_paths)"; after the
\* last frame the function calls merge_entities(frame_results)
ProcessFrame ==
    /\ pc = "frames"
    /\ fi < Len(frames)
    /\ frame_results' = frame_results \o ProcessFrameEntries(fi, frames[fi + 1])
    /\ fi' = fi + 1
    /\ pc' = IF fi + 1 = Len(frames) THEN "merge" ELSE "frames"
    /\ UNCHANGED <<in_flight, text, current_date, extracted_data, frames, merged, mi,
                   question, response>>

\* the return of process_dynamic_image
DynamicReturn ==
    /\ pc = "merge"
    /\ mi > Len(frame_results)
    /\ response' = [frames_processed |-> Len(frames), frame_results |-> frame_results,
                    merged_entities |-> merged]
    /\ pc' = "done"
    /\ UNCHANGED <<in_flight, text, current_date, extracted_data, frames, fi, frame_results,
                   merged, mi, question>>

NextDynamic == ProcessFrame \/ MergeStep \/ DynamicReturn

SpecDynamic == InitDynamic /\ [][NextDynamic]_vars

(***************************************************************************)
(* query_parser.py: parse_date called on a date text and a reference date. *)
(***************************************************************************)
MaxRefDays == 7     \* consecutive reference dates from each first date

\* first reference dates: a Monday, a Monday before a leap day, a Thursday
\* before the end of a year, and the last week datetime can hold
RefStarts == { [y |-> 2024, m |-> 3, d |-> 4], [y |-> 2024, m |-> 2, d |-> 26],
               [y |-> 2023, m |-> 12, d |-> 28], [y |-> 9999, m |-> 12, d |-> 25] }
RefDays == { r \in { AddDays(s, k) : s \in RefStarts, k \in 0..(MaxRefDays - 1) } : r.ok }
RefDates ==
    { Strftime(r.v) : r \in RefDays } \cup { <<"0","4","/","0","3","/","2","0","2","4">> }

\* "next <weekday>" for the seven weekdays
NextWeekdayTexts == { <<"n","e","x","t"," ">> \o WeekdayNames[t] : t \in 1..7 }
DateTexts ==
    NextWeekdayTexts \cup
    { <<"N","e","x","t"," ","M","o","n","d","a","y">>,
      <<"n","e","x","t"," ","w","e","e","k">>,
      <<"n","e","x","t"," ","s","u","n","d","a","y"," ","o","r"," ","m","o","n","d","a","y">>,
      <<"t","o","m","o","r","r","o","w">>, <<"t","o","d","a","y">>, <<"s","o","o","n">> }

InitDate ==
    /\ pc = "date"
    /\ text \in DateTexts
    /\ current_date \in RefDates
    /\ response = NoneV
    /\ extracted_data = EmptyDict
    /\ frames = <<>>
    /\ fi = 0
    /\ frame_results = <<>>
    /\ merged = EmptyDict
    /\ mi = 1
    /\ question = NoText
    /\ in_flight = EmptyBag

\* parse_date(date_text, current_date_str): the str returned, or the exception
ParseDate(parsed) ==
    /\ pc = "date"
    /\ response' = parse_date(text, current_date, parsed)
    /\ pc' = "resolved"
    /\ UNCHANGED <<in_flight, text, current_date, extracted_data, frames, fi, frame_results,
                   merged, mi, question>>

NextDate == \E parsed \in FuzzyOutcomes : ParseDate(parsed)

SpecDate == InitDate /\ [][NextDate]_vars

(***************************************************************************)
(* nlp_extractor.py: extract_entities called on a text.                    *)
(***************************************************************************)
MaxParts == 2       \* fragments in a text given to extract_entities directly

\* fragments that patterns of different priority of one category match
CascadeWords == {
    <<"P","N","R",":"," ","A","B","C","1","2","3">>, <<"X","Y","Z","7","8","9">>, <<"B","o","o","k","i","n","g",":"," ","Q","W","E","4","5","6","7">>, <<"I","D",":"," ","Z","Z","9","9","8","8","7">>,
    <<"N","a","m","e",":"," ","J","o","h","n"," ","S","m","i","t","h">>, <<"M","r","."," ","A","l"," ","R","o","e">>,
    <<"2","0","2","4","-","0","3","-","0","4">>, <<"0","5","/","0","3","/","2","0","2","4">>, <<"D","a","t","e",":"," ","6","/","3","/","2","4">>,
    <<"$","5","0","0">>, <<"T","o","t","a","l",":"," ","7","5","0">>, <<"R","s","."," ","9","0","0">> }
CascadeTexts == Phrases(CascadeWords, MaxParts)

InitExtract ==
    /\ pc = "extract"
    /\ text \in CascadeTexts
    /\ response = NoneV
    /\ current_date = NoText
    /\ extracted_data = EmptyDict
    /\ frames = <<>>
    /\ fi = 0
    /\ frame_results = <<>>
    /\ merged = EmptyDict
    /\ mi = 1
    /\ question = NoText
    /\ in_flight = EmptyBag

\* extract_entities(text): Ok(the entities dict returned), or the exception
ExtractEntities ==
    /\ pc = "extract"
    /\ response' = extract_entities(text)
    /\ pc' = "extracted"
    /\ UNCHANGED <<in_flight, text, current_date, extracted_data, frames, fi, frame_results,
                   merged, mi, question>>

NextExtract == ExtractEntities

SpecExtract == InitExtract /\ [][NextExtract]_vars

(***************************************************************************)
(* The core functions called directly: extract_entities on the text of a   *)
(* booking document, parse_flight_query on a query and a reference date.   *)
(***************************************************************************)
InitCore ==
    /\ \/ pc = "text" /\ text \in OcrTexts /\ current_date = NoneV
       \/ pc = "query" /\ text \in Queries /\ current_date \in OptionalDates
    /\ response = NoneV
    /\ extracted_data = EmptyDict
    /\ frames = <<>>
    /\ fi = 0
    /\ frame_results = <<>>
    /\ merged = EmptyDict
    /\ mi = 1
    /\ question = NoText
    /\ in_flight = EmptyBag

\* extract_entities(text): Ok(the entities dict returned), or the exception
CallExtractEntities ==
    /\ pc = "text"
    /\ response' = extract_entities(text)
    /\ pc' = "extracted"
    /\ UNCHANGED <<in_flight, text, current_date, extracted_data, frames, fi, frame_results,
                   merged, mi, question>>

\* parse_flight_query(query, current_date): Ok(the result), or the exception
CallParseFlightQuery(now, parsed) ==
    /\ pc = "query"
    /\ response' = parse_flight_query(text, current_date, now, parsed)
    /\ pc' = "parsed"
    /\ UNCHANGED <<in_flight, text, current_date, extracted_data, frames, fi, frame_results,
                   merged, mi, question>>

NextCore ==
    \/ CallExtractEntities
    \/ \E now \in Clock, parsed \in FuzzyOutcomes : CallParseFlightQuery(now, parsed)

SpecCore == InitCore /\ [][NextCore]_vars

(***************************************************************************)
(* Properties                                                              *)
(***************************************************************************)
\* what the last call of a core function returned
Extracted == pc = "extracted" /\ response.ok
ExtractedEntities == response.v
Parsed == pc = "parsed" /\ response.ok
ParsedPassengers == response.v["passengers"]
\* the question the last request asked, and the entities it was asked about
Answered == pc = "answered" /\ response.status = 200
AnsweredEntities == AskEntities(extracted_data[response.file_id])
AnsweredPassengers ==
    IF Has(AnsweredEntities, "passengers") /\ ~IsStr(AnsweredEntities["passengers"])
    THEN AnsweredEntities["passengers"].dict ELSE EmptyDict

\* adult_male + adult_female + minor + minor_male + minor_female, absent fields as 0
FieldSum(p) ==
    Get(p, "adult_male", 0) + Get(p, "adult_female", 0) + Get(p, "minor", 0)
    + Get(p, "minor_male", 0) + Get(p, "minor_female", 0)

\* C1: the passengers record extract_passenger_info returns (stored by
\* extract_entities) and the passengers record of every result
\* parse_flight_query returns have total equal to the sum of the five count
\* fields, absent fields counted as 0.
C1_TotalIsSum ==
    /\ (Extracted /\ Has(ExtractedEntities, "passengers"))
          => /\ Has(ExtractedEntities["passengers"].dict, "total")
             /\ ExtractedEntities["passengers"].dict["total"]
                  = FieldSum(ExtractedEntities["passengers"].dict)
    /\ Parsed
          => /\ Has(ParsedPassengers, "total")
             /\ ParsedPassengers["total"] = FieldSum(ParsedPassengers)

\* a text with three count fields has been extracted, the total above 3
C1_Witness ==
    /\ Extracted
    /\ Has(ExtractedEntities, "passengers")
    /\ Cardinality(DOMAIN ExtractedEntities["passengers"].dict \ {"total"}) >= 3
    /\ ExtractedEntities["passengers"].dict["total"] > 3

\* the values the frame results report for key k
Reported(k) ==
    { frame_results[j]["entities"][k] :
        j \in { n \in 1..Len(frame_results) :
                  /\ Has(frame_results[n], "entities")
                  /\ Has(frame_results[n]["entities"], k) } }

MergeKeys == {"name", "passengers", "origin", "destination", "route"}

\* C2: when every value the frame results report for a key is a string, the
\* value merge_entities returns for the key is one of the reported values and
\* none of the reported values is longer.
C2_LongestStringWins ==
    pc = "done" =>
        \A k \in MergeKeys :
            (Reported(k) # {} /\ \A v \in Reported(k) : IsStr(v))
               => /\ Has(response, k)
                  /\ response[k] \in Reported(k)
                  /\ \A v \in Reported(k) : Len(v.str) <= Len(response[k].str)

\* "Jo" then "John Smith" has been merged, into "John Smith"
C2_Witness ==
    /\ pc = "done"
    /\ Len(frame_results) = 2
    /\ Reported("name") = {StrV(<<"J","o">>), StrV(<<"J","o","h","n"," ","S","m","i","t","h">>)}
    /\ frame_results[1]["entities"]["name"] = StrV(<<"J","o">>)
    /\ response["name"] = StrV(<<"J","o","h","n"," ","S","m","i","t","h">>)

\* C3: merge_entities([R, R]) returns the record merge_entities([R]) returns.
C3_MergeIdempotent ==
    (pc = "done" /\ Len(frame_results) = 2 /\ frame_results[1] = frame_results[2])
        => response = merge_entities(<<frame_results[1]>>)

\* a frame result with a name and a passengers record has been merged with itself
C3_Witness ==
    /\ pc = "done"
    /\ Len(frame_results) = 2
    /\ frame_results[1] = frame_results[2]
    /\ Has(frame_results[1], "entities")
    /\ DOMAIN response = {"name", "passengers"}
    /\ ~IsStr(response["passengers"])

\* C4: once a key of the merged record holds a non-string value, no round
\* of the merge changes the value of that key: the first frame to report the
\* key owns it.
C4_NonStringNeverReplaced ==
    [][\A k \in DOMAIN merged :
          ~IsStr(merged[k]) => (Has(merged', k) /\ merged'[k] = merged[k])]_vars

\* a later frame has reported a second passengers record, longer in print
\* than the one the first frame reported, and the first is still held
C4_Witness ==
    /\ pc = "done"
    /\ Len(frame_results) = 2
    /\ Has(frame_results[1], "entities") /\ Has(frame_results[2], "entities")
    /\ Has(frame_results[1]["entities"], "passengers")
    /\ Has(frame_results[2]["entities"], "passengers")
    /\ frame_results[1]["entities"]["passengers"] = DictV(OneAdultMale)
    /\ frame_results[2]["entities"]["passengers"] = DictV(TwoAdultFemale)
    /\ response["passengers"] = DictV(OneAdultMale)

\* the frame results that carry entities
Successful(results) == SelectSeq(results, LAMBDA r : Has(r, "entities"))

\* no frame raises after its result was appended
FailuresBeforeAppend ==
    \A j \in 1..Len(frames) : frames[j].outcome \in {"ok", "preprocess_raises"}

\* whatever the frames do, the function is in its frame loop with a frame
\* left to process, or in the merge, or has returned: no failure ends it early
C5_RunsToReturn ==
    /\ pc \in {"frames", "merge", "done"}
    /\ pc = "frames" => fi < Len(frames)
    /\ pc \in {"merge", "done"} => fi = Len(frames)
    /\ pc = "merge" => mi <= Len(frame_results) + 1
    /\ pc = "done" => mi = Len(frame_results) + 1

\* frame j fails: its preprocessing raises, or extract_entities raises on its text
FrameFails(j) ==
    frames[j].outcome = "preprocess_raises" \/ ~extract_entities(frames[j].text).ok

\* the result of a batch whose failures are in preprocessing, OCR or extraction
C5_EntryPerFrame ==
    (pc = "done" /\ FailuresBeforeAppend)
          => /\ response.frames_processed = Len(frames)
             /\ Len(response.frame_results) = Len(frames)
             /\ \A j \in 1..Len(frames) :
                   /\ response.frame_results[j]["frame"] = j - 1
                   /\ ~FrameFails(j)
                         => /\ DOMAIN response.frame_results[j] = {"frame", "text", "entities"}
                            /\ response.frame_results[j]["entities"]
                                 = extract_entities(frames[j].text).v
                   /\ FrameFails(j)
                         => DOMAIN response.frame_results[j] = {"frame", "error"}
             /\ response.merged_entities = merge_entities(Successful(response.frame_results))
             /\ Successful(response.frame_results) = <<>> => response.merged_entities = EmptyDict

\* C5: when frames fail in preprocessing, OCR or extraction, the batch still
\* completes, frame_results has one entry per sampled frame in increasing
\* frame index (entities for a successful frame, an error alone for a failed
\* one), and merged_entities is the merge of the successful entries alone.
C5_FrameFailureIsolated == C5_RunsToReturn /\ C5_EntryPerFrame

\* a batch whose first frame failed and whose second frame gave entities has returned
C5_Witness ==
    /\ pc = "done"
    /\ Len(frames) = 2
    /\ frames[1].outcome = "preprocess_raises"
    /\ frames[2].outcome = "ok"
    /\ Has(response.merged_entities, "name")

\* C6: on a record with both amount and passengers.total, a question that
\* satisfies the amount rule is answered with the amount, not with the
\* passenger total.
C6_AmountBeforePassengerTotal ==
    (/\ Answered
     /\ Has(AnsweredEntities, "amount")
     /\ Has(AnsweredPassengers, "total")
     /\ AmountRule(Lower(question)))
        => /\ response.answer = F("The amount is {}.", <<AnsweredEntities["amount"]>>)
           /\ response.source = F("Amount found: {}", <<AnsweredEntities["amount"]>>)

\* a question with "total", "fare" and "passengers" has been answered on the
\* record of a clip whose merged entities hold an amount and a passenger total
C6_Witness ==
    /\ Answered
    /\ extracted_data[response.file_id].type = "dynamic"
    /\ Has(AnsweredEntities, "amount")
    /\ Has(AnsweredPassengers, "total")
    /\ question = <<"T","o","t","a","l"," ","f","a","r","e"," ","f","o","r"," ","a","l","l"," ","p","a","s","s","e","n","g","e","r","s">>
    /\ response.answer.fmt = "The amount is {}."

\* C7: when rule groups 1-4 give no answer, the question contains "adult"
\* and "female" and passengers.adult_female is present, the answer reports
\* passengers.adult_female and the source names adult_female.
C7_AdultFemaleAnswered ==
    (/\ Answered
     /\ Not(AskFields(AnsweredEntities, Lower(question))[1])
     /\ In(<<"a","d","u","l","t">>, Lower(question))
     /\ In(<<"f","e","m","a","l","e">>, Lower(question))
     /\ Has(AnsweredPassengers, "adult_female"))
        => /\ response.answer
                = F("There are {} adult females.", <<IntV(AnsweredPassengers["adult_female"])>>)
           /\ response.source
                = F("adult_female: {}", <<IntV(AnsweredPassengers["adult_female"])>>)

\* rule groups 1-4: the keywords of rule n, whether its field is present, and
\* the answer it gives
RuleKeywords(n, q) ==
    CASE n = 1 -> AmountRule(q)
      [] n = 2 -> NameRule(q)
      [] n = 3 -> DateRule(q)
      [] n = 4 -> IdRule(q)
RuleField(n, entities) ==
    CASE n = 1 -> Has(entities, "amount")
      [] n = 2 -> Has(entities, "name")
      [] n = 3 -> Has(entities, "date")
      [] n = 4 -> FirstIdKey(entities, 1) # "<none>"
RuleAnswer(n, entities) ==
    CASE n = 1 -> F("The amount is {}.", <<entities["amount"]>>)
      [] n = 2 -> F("The name is {}.", <<entities["name"]>>)
      [] n = 3 -> F("The date is {}.", <<entities["date"]>>)
      [] n = 4 -> F("The {} is {}.", <<KeyV(FirstIdKey(entities, 1)),
                                       entities[FirstIdKey(entities, 1)]>>)
\* the first rule of groups 1-4 whose keywords the question satisfies has number n
FirstRule(n, q) == RuleKeywords(n, q) /\ \A m \in 1..(n - 1) : ~RuleKeywords(m, q)

\* C8 as claimed: when the first rule of groups 1-4 that the question
\* satisfies has its field absent and a later rule the question satisfies
\* has its field present, the first such later rule supplies the answer.
C8_AbsentFieldFallsToLaterRule ==
    Answered =>
        \A n \in 1..3 : \A l \in (n + 1)..4 :
            (/\ FirstRule(n, Lower(question))
             /\ ~RuleField(n, AnsweredEntities)
             /\ RuleKeywords(l, Lower(question))
             /\ RuleField(l, AnsweredEntities)
             /\ \A m \in (n + 1)..(l - 1) :
                   ~(RuleKeywords(m, Lower(question)) /\ RuleField(m, AnsweredEntities)))
                => response.answer = RuleAnswer(l, AnsweredEntities)

\* C8 as amended: when the first rule of groups 1-4 that the question
\* satisfies has its field absent, no rule of groups 1-4 supplies the answer,
\* also when a later rule is satisfied and its field is present: the answer
\* comes from the passenger sub-rules or from the final fallback.
C8_AbsentFieldEndsFieldRules ==
    Answered =>
        \A n \in 1..4 :
            (FirstRule(n, Lower(question)) /\ ~RuleField(n, AnsweredEntities))
                => /\ response.answer.fmt \notin
                        {"The amount is {}.", "The name is {}.", "The date is {}.",
                         "The {} is {}."}
                   /\ \/ response.answer = AskPassengers(AnsweredEntities, Lower(question))[1]
                      \/ response.answer = AskFallback(AnsweredEntities)[1]

\* a question with "amount" and "name" has been answered on a record with a
\* name and no amount: the answer is the listing of all entities
C8_Witness ==
    /\ Answered
    /\ question = <<"a","m","o","u","n","t"," ","a","n","d"," ","n","a","m","e">>
    /\ Has(AnsweredEntities, "name")
    /\ ~Has(AnsweredEntities, "amount")
    /\ response.answer = F("Found information: {}", <<DictV(AnsweredEntities)>>)

\* the route patterns with whitespace between the words:
\* (?:from|leaving)\s+([a-z]+)\s+(?:to|for)\s+([a-z]+) and
\* ([a-z]+)\s+(?:to|for)\s+([a-z]+)
WordsRoutePatterns == <<
    Cat(<<Alt(<<Lit(<<"f","r","o","m">>), Lit(<<"l","e","a","v","i","n","g">>)>>), Spaces1,
          Grp(1, Plus(Set(az))), Spaces1, ToFor, Spaces1, Grp(2, Plus(Set(az)))>>),
    Cat(<<Grp(1, Plus(Set(az))), Spaces1, ToFor, Spaces1, Grp(2, Plus(Set(az)))>>) >>
WordsRoute == FirstMatch(WordsRoutePatterns, 1, Lower(text), FALSE)

\* C9: when the lower-cased query contains "from X to Y", "leaving X for Y"
\* or "X to Y" with spaces between the words, the result has
\* origin = normalize_city(X) and destination = normalize_city(Y).
C9_RouteFromWords ==
    (Parsed /\ WordsRoute.ok)
        => /\ Has(response.v, "origin")
           /\ Has(response.v, "destination")
           /\ response.v["origin"] = normalize_city(Group(Lower(text), WordsRoute, 1))
           /\ response.v["destination"] = normalize_city(Group(Lower(text), WordsRoute, 2))

\* no passenger pattern of parse_flight_query matches the lower-cased query
NoQueryCount ==
    \A patterns \in {male_patterns, female_patterns, minor_patterns} :
        ~FirstMatch(patterns, 1, Lower(text), FALSE).ok
\* no passenger pattern of extract_passenger_info matches the text
NoTextCount ==
    \A re \in {PaxMaleRe, PaxFemaleRe, PaxMinorFemaleRe, PaxMinorMaleRe, PaxMinorRe} :
        ~SearchI(re, text).ok

\* C10: when parse_flight_query finds no passenger count, the passengers
\* record it returns is exactly {adult_male: 1, total: 1}; when
\* extract_entities finds no passenger count, its result has no passengers key.
C10_ZeroPassengerDefault ==
    /\ (Parsed /\ NoQueryCount) => ParsedPassengers = OneAdultMale
    /\ (Extracted /\ NoTextCount) => ~Has(ExtractedEntities, "passengers")

\* "Delhi to Mumbai tomorrow" has been parsed and the default applied
C10_Witness ==
    /\ Parsed
    /\ text = <<"D","e","l","h","i"," ","t","o"," ","M","u","m","b","a","i"," ","t","o","m","o","r","r","o","w">>
    /\ NoQueryCount
    /\ ParsedPassengers = OneAdultMale

\* the reference date is well formed: strptime(current_date, "%Y-%m-%d") succeeds
WellFormedDate == Strptime(current_date).ok
\* the same of the optional reference date of parse_flight_query: with None
\* the reference date is the clock's, which is well formed
WellFormedOptionalDate == current_date = NoneV \/ Strptime(current_date.str).ok

\* C11: the core functions never raise: for every query and every well-formed
\* reference date parse_flight_query returns a result (in particular when a
\* passenger-count pattern matches), and extract_entities returns a result
\* for every text.
C11_CoreFunctionsTotal ==
    /\ (pc = "parsed" /\ WellFormedOptionalDate) => response.ok
    /\ pc = "extracted" => response.ok

\* the reference date as a date, and the target weekday of "next <weekday>"
\* (Monday is 0)
RefDate == Strptime(current_date).dt
Resolved == pc = "resolved" /\ WellFormedDate /\ Lower(text) \in NextWeekdayTexts
Target == (CHOOSE t \in 1..7 : Lower(text) = <<"n","e","x","t"," ">> \o WeekdayNames[t]) - 1

\* C12: parse_date on "next <weekday>" returns the reference date plus d days
\* with 1 <= d <= 7, landing on the named weekday, and d = 7 exactly when the
\* reference date is itself that weekday (for the reference dates whose d-th
\* day after is a date of the calendar, that is, not after 9999-12-31).
C12_NextWeekdayStrictlyAfter ==
    Resolved =>
        \E d \in 1..7 :
            /\ (Weekday(RefDate) + d) % 7 = Target
            /\ (d = 7) <=> (Weekday(RefDate) = Target)
            /\ AddDays(RefDate, d).ok
                  => /\ response.ok
                     /\ response.value = Strftime(AddDays(RefDate, d).v)

\* "next monday" on Monday 2024-03-04 has been resolved to 2024-03-11
C12_Witness ==
    /\ Resolved
    /\ current_date = <<"2","0","2","4","-","0","3","-","0","4">>
    /\ text = <<"n","e","x","t"," ","m","o","n","d","a","y">>
    /\ response.ok
    /\ response.value = <<"2","0","2","4","-","0","3","-","1","1">>

\* the patterns of the list that match somewhere in the text
Matching(patterns, ic) ==
    { k \in 1..Len(patterns) : SearchFrom(patterns[k], text, ic, 1).ok }

\* group 1 of a match in the text
Capture(match) == IF match.ok THEN Group(text, match, 1) ELSE <<>>

\* the key holds the capture of the lowest-index matching pattern, and is
\* absent when no pattern of the list matches
LowestIndexWins(key, patterns, ic) ==
    IF Matching(patterns, ic) = {} THEN ~Has(response.v, key)
    ELSE /\ Has(response.v, key)
         /\ \E k \in Matching(patterns, ic) :
               /\ \A j \in Matching(patterns, ic) : k <= j
               /\ response.v[key] = StrV(Capture(SearchFrom(patterns[k], text, ic, 1)))

\* C13: the value extract_entities stores for name, date, amount and
\* booking_id is the capture of the lowest-index pattern of the category's
\* list that matches anywhere in the text, wherever later patterns match; a
\* text with "PNR: ABC123" and a bare "XYZ789" gives booking_id "ABC123".
C13_LowestIndexPatternWins ==
    (pc = "extracted" /\ response.ok) =>
        /\ LowestIndexWins("name", name_patterns, TRUE)
        /\ LowestIndexWins("date", date_patterns, FALSE)
        /\ LowestIndexWins("amount", amount_patterns, TRUE)
        /\ LowestIndexWins("booking_id", pnr_patterns, FALSE)
        /\ (Contains(text, <<"P","N","R",":"," ","A","B","C","1","2","3">>) /\ Contains(text, <<"X","Y","Z","7","8","9">>))
              => response.v["booking_id"] = StrV(<<"A","B","C","1","2","3">>)

\* the bare "XYZ789" comes before "PNR: ABC123" in the text, and ABC123 is stored
C13_Witness ==
    /\ pc = "extracted"
    /\ text = <<"X","Y","Z","7","8","9"," ","P","N","R",":"," ","A","B","C","1","2","3">>
    /\ Matching(pnr_patterns, FALSE) = {1, 4}
    /\ response.ok
    /\ response.v["booking_id"] = StrV(<<"A","B","C","1","2","3">>)

\* origin, destination and route are all absent, or all present with
\* route = origin + "-" + destination
RouteKeys == {"origin", "destination", "route"}
RouteConsistent(e) ==
    \/ DOMAIN e \cap RouteKeys = {}
    \/ /\ RouteKeys \subseteq DOMAIN e
       /\ \A k \in RouteKeys : IsStr(e[k])
       /\ e["route"].str = e["origin"].str \o <<"-">> \o e["destination"].str

\* every record extract_entities returned for a frame is route-consistent
FramesRouteConsistent ==
    \A j \in 1..Len(frame_results) :
        Has(frame_results[j], "entities") => RouteConsistent(frame_results[j]["entities"])

\* C14 as claimed: every record extract_entities returns is route-consistent,
\* and for frame results that are route-consistent the record merge_entities
\* returns is route-consistent too.
C14_RouteConsistentAfterMerge ==
    /\ FramesRouteConsistent
    /\ (pc = "done" /\ FramesRouteConsistent) => RouteConsistent(response)

\* C14 as amended: every record extract_entities returns is route-consistent;
\* the record merge_entities returns has origin, destination and route all
\* present or all absent, each the longest value reported for its key, and
\* it is route-consistent when the frames report at most one route.
C14_RouteKeysMergedPerKey ==
    /\ FramesRouteConsistent
    /\ pc = "done" =>
          /\ (DOMAIN response \cap RouteKeys = {} \/ RouteKeys \subseteq DOMAIN response)
          /\ \A k \in RouteKeys \cap DOMAIN response :
                /\ response[k] \in Reported(k)
                /\ \A v \in Reported(k) : Len(v.str) <= Len(response[k].str)
          /\ Cardinality(Reported("route")) <= 1 => RouteConsistent(response)

\* "Goa to Pune" then "Delhi to Goa" has been merged: the origin and the
\* route of the second frame with the destination of the first
C14_Witness ==
    /\ pc = "done"
    /\ Len(frame_results) = 2
    /\ Reported("route") = {StrV(<<"G","o","a","-","P","u","n","e">>), StrV(<<"D","e","l","h","i","-","G","o","a">>)}
    /\ frame_results[1]["entities"]["route"] = StrV(<<"G","o","a","-","P","u","n","e">>)
    /\ response["origin"] = StrV(<<"D","e","l","h","i">>)
    /\ response["destination"] = StrV(<<"P","u","n","e">>)
    /\ response["route"] = StrV(<<"D","e","l","h","i","-","G","o","a">>)

====
